---- MODULE Spec2Model ----
(***************************************************************************)
(* Verification model of the OpenTalk media-and-signaling runtime:         *)
(*   - obelisk (SIP <-> WebRTC gateway): RTP port pool, DTMF depayloader,  *)
(*     per-call signaling loop, shutdown sequence;                         *)
(*   - recorder: Talk facade / Mixer of the compositor, recording session. *)
(* Each subsystem has its own specification (SpecPool, SpecDtmf, ...) over *)
(* the variables it owns; the other variables stay at their initial value. *)
(***************************************************************************)
EXTENDS Integers, Sequences, FiniteSets, TLC

\* ------------------------------------------------------------------------
\* Bounds of the model
\* ------------------------------------------------------------------------
\* settings.sip.rtp_port_range.start / .end handed to PortPool::init
PortStart == 2
PortEnd == 7
\* number of concurrent calls that create / drop a SipBin
NumCallers == 2
\* ports that a foreign process may hold at the same time
MaxExtern == 1
\* number of RTP packets fed to the DTMF depayloader
MaxPackets == 4
\* width in bits of the modelled RTP timestamp (u32 in the code; the model
\* keeps the wrap-around of the type at a width the checker can enumerate)
TsWidth == 4
\* participants of a talk; each has a ScreenCapture and a Camera stream id
NumParticipants == 2
\* max_visibles handed to Talk::new by a user of the compositor library
MaxVisibles == 2
\* dial-in calls the gateway handles
NumCalls == 1
\* outputs (prompts played, publish offers sent) recorded per call
MaxLog == 7
\* controller.start attempts per call
MaxStarts == 2
\* payload numbers in the m= line and rtpmap attributes of an SDP offer
MaxFmts == 2
MaxRtpmaps == 2
\* session versions (o= line) an offer carries: 0..MaxVersion
MaxVersion == 2
\* reINVITEs one SipBin handles
MaxUpdates == 3

\* ------------------------------------------------------------------------
\* Constants of the program
\* ------------------------------------------------------------------------
\* recorder.rs: pub const MAX_VISIBLES: usize = 8
MAX_VISIBLES == 8
\* signaling.rs: `if self.dtmf_id.len() == 10`
IdDigits == 10
\* signaling.rs: `if self.dtmf_pw.len() == 10`
PwDigits == 10
\* sip.rs: `for _ in 0..10` around `sleep(Duration::from_secs(1))`
ShutdownGrace == 10
\* participant ids the controller names as the source of a media message;
\* the first is the one join_success assigns to the gateway itself
NumUuids == 4
\* REGISTER requests of one registration attempt the model follows
MaxRegisters == 12
\* largest number of visible streams handed to a layout (max_visibles of
\* the Mixer's user) and of registered streams that are not visible
MaxLayoutVisibles == 9
MaxInvisibles == 2
\* subscribe requests of one participant that await the controller's offer
MaxPending == 2
\* media session states one call announces to the controller
MaxMediaMsgs == 3

VARIABLES
    \* ---- obelisk: PortPool (media/port_pool.rs) and its users ----
    used_pairs,     \* PortPool.used_pairs : BTreeSet<u16>
    mutex,          \* owner of the used_pairs Mutex, or NoCaller
    poolPc,         \* per caller: position inside create_rtp_socket_pair / drop
    failed_pairs,   \* per caller: the local `failed_pairs` vector
    pair,           \* per caller: the pair drawn / owned
    bound,          \* UDP ports bound by sockets of this process
    asyncNull,      \* pairs whose pipeline has a queued set_state(Null)
    extern,         \* UDP ports bound by other processes
    released,       \* pairs clear_port has removed from used_pairs so far
    \* ---- obelisk: custom DTMF depayloader (sip_bin/custom_rtpdtmfdepay.rs) ----
    last_timestamp, \* State.last_timestamp : Option<u32>
    dtmfIn,         \* the packets fed to process_rtp_packet so far, in order
    dtmfPosted,     \* number of dtmf-event messages posted on the bus
    \* ---- recorder: Talk facade over the Mixer (compositor/src/mixer) ----
    talk,           \* the Talk and its Mixer
    talkLast,       \* the last call made on the Talk
    \* ---- recorder: one recording session (recorder.rs, signaling.rs) ----
    participants,   \* Signaling.participants : HashMap<ParticipantId, ParticipantState>
    recTalk,        \* RecordingSession.talk
    sent,           \* Subscribe messages sent by the last handler
    done,           \* RecordingSession.done
    recPc,          \* position of the session task: run, drop_talk, upload, copy, finished
    runResult,      \* what RecordingSession::run returned
    endReason,      \* why run returned: roster_empty, close, shutdown, error
    uploaded,       \* upload_render answered with success
    dumped,         \* the copy to DUMP.mp4 succeeded
    recordingFile,  \* out.mp4 exists in the session's TempDir
    sessionResult,  \* what the session task returned
    \* ---- obelisk: dial-in call signaling (signaling.rs, sip.rs, media/track.rs) ----
    call,           \* per call: the Signaling, its TrackController, its task position
    mainPc,         \* position of sip::run: running, waiting, returned
    graceTicks,     \* one-second sleeps sip::run has slept in the shutdown sequence
    activeAtShutdown, \* the calls whose task was alive when the broadcast was sent
    \* ---- obelisk: codec choice (media/sip_bin/codec.rs) ----
    mediaOffer,     \* the media section of the offer: desc.fmts and rtpmaps
    codecInfo,      \* what choose_codec returned for it
    codecPc,        \* idle: choose_codec not yet called; done: it has returned
    \* ---- obelisk: SDP negotiation (media/sip_bin/sdp.rs) ----
    sdpOffer,       \* the offer handed to respond
    sdpResult,      \* what respond returned for it
    sdpPc,          \* idle: respond not yet called; done: it has returned
    \* ---- obelisk: SipBin (media/sip_bin/mod.rs) ----
    sipBin,         \* the SipBin with its udpsinks and its audio-input-valve
    sipLast,        \* the last call on it: new or update, its result; the largest
                    \* remote_version of the accepted offers so far (seen) and
                    \* whether the last offer exceeded all before it (newest)
    sipState,       \* Signaling.state of the call that owns the SipBin
    sipResponse,    \* status code of the response to the last INVITE or reINVITE
    \* ---- obelisk: ICE candidates of a call (websocket.rs, media/mod.rs) ----
    selfId,         \* Websocket.id : Option<Uuid>
    pipelineBins,   \* the webrtc bins of the MediaPipeline: publish, subscribe:{uuid}
    iceLast,        \* the last media message handled: its source, the bin it reached
    \* ---- obelisk: DTMF menu of a joined call (signaling.rs handle_media_event) ----
    menu,           \* the Signaling of one call and its TrackController
    menuLast,       \* the last event handled: the digit, the call before it, what was sent
    \* ---- obelisk: one call of register (sip.rs) ----
    regPc,          \* idle, send (top of the loop), await (receive_final), done
    regRemoveBinding, \* the remove_binding argument
    regRequests,    \* REGISTER requests handed to endpoint.send_request
    regResponse,    \* code of the last final response, 0 before the first
    regResult,      \* what register returned: none, Ok, Err
    \* ---- recorder: layouts of the compositor (layout/grid.rs, layout/speaker.rs) ----
    layoutPc,       \* idle, set (resolution and visibles handed over), rendered
    layout,         \* the Layout: Grid or Speaker, its resolution, its visibles
    pads,           \* compositor sink pads in layout order: xpos, ypos, width, height, alpha
    \* ---- obelisk: subscriptions of a call (signaling.rs, media/mod.rs) ----
    subPc,            \* "dialin", "welcome" (joined, WelcomeUsage playing), "published"
    subState,         \* Signaling.state: "Running" or "Quitting"
    subParticipants,  \* Signaling.participants, by id: "absent", "joined", "publishing"
    subRequests,      \* subscribe requests sent for a participant since it began to publish
    subPending,       \* subscribe requests the controller has not answered with an offer yet
    subBins,          \* the ids that have a subscribe:{uuid} bin in the pipeline
    mutedFlag,        \* Signaling.muted
    audioInput,       \* the volume element audio-input of the publish bin: "none", "muted", "unmuted"
    publishPending,   \* Signaling.publish_complete_pending
    mediaMsgs         \* the media session states sent to the controller, in order

poolVars == <<used_pairs, mutex, poolPc, failed_pairs, pair, bound, asyncNull, extern,
              released>>

dtmfVars == <<last_timestamp, dtmfIn, dtmfPosted>>

talkVars == <<talk, talkLast>>

recVars == <<participants, recTalk, sent, done, recPc, runResult, endReason, uploaded,
             dumped, recordingFile, sessionResult>>

gatewayVars == <<call, mainPc, graceTicks, activeAtShutdown>>

codecVars == <<mediaOffer, codecInfo, codecPc>>

sdpVars == <<sdpOffer, sdpResult, sdpPc>>

sipVars == <<sipBin, sipLast, sipState, sipResponse>>

iceVars == <<selfId, pipelineBins, iceLast>>

menuVars == <<menu, menuLast>>

regVars == <<regPc, regRemoveBinding, regRequests, regResponse, regResult>>

layoutVars == <<layoutPc, layout, pads>>

subVars == <<subPc, subState, subParticipants, subRequests, subPending, subBins,
             mutedFlag, audioInput, publishPending, mediaMsgs>>

vars == <<poolVars, dtmfVars, talkVars, recVars, gatewayVars, codecVars, sdpVars, sipVars,
          iceVars,
          menuVars,
          regVars,
          layoutVars,
          subVars>>

\* what a step of one subsystem leaves alone: the state of the others
PoolFrame ==
    UNCHANGED <<dtmfVars, talkVars, recVars, gatewayVars, codecVars, sdpVars, sipVars,
               iceVars,
               menuVars,
               regVars,
               layoutVars,
               subVars>>
DtmfFrame ==
    UNCHANGED <<poolVars, talkVars, recVars, gatewayVars, codecVars, sdpVars, sipVars,
               iceVars,
               menuVars,
               regVars,
               layoutVars,
               subVars>>
TalkFrame ==
    UNCHANGED <<poolVars, dtmfVars, recVars, gatewayVars, codecVars, sdpVars, sipVars,
               iceVars,
               menuVars,
               regVars,
               layoutVars,
               subVars>>
RecorderFrame ==
    UNCHANGED <<poolVars, dtmfVars, talkVars, gatewayVars, codecVars, sdpVars, sipVars,
               iceVars,
               menuVars,
               regVars,
               layoutVars,
               subVars>>
GatewayFrame ==
    UNCHANGED <<poolVars, dtmfVars, talkVars, recVars, codecVars, sdpVars, sipVars,
               iceVars,
               menuVars,
               regVars,
               layoutVars,
               subVars>>
CodecFrame ==
    UNCHANGED <<poolVars, dtmfVars, talkVars, recVars, gatewayVars, sdpVars, sipVars,
               iceVars,
               menuVars,
               regVars,
               layoutVars,
               subVars>>
SdpFrame ==
    UNCHANGED <<poolVars, dtmfVars, talkVars, recVars, gatewayVars, codecVars, sipVars,
               iceVars,
               menuVars,
               regVars,
               layoutVars,
               subVars>>
IceFrame ==
    UNCHANGED <<poolVars, dtmfVars, talkVars, recVars, gatewayVars, codecVars, sdpVars, sipVars,
               menuVars,
               regVars,
               layoutVars,
               subVars>>
SipFrame ==
    UNCHANGED <<poolVars, dtmfVars, talkVars, recVars, gatewayVars, codecVars, sdpVars,
               iceVars,
               menuVars,
               regVars,
               layoutVars,
               subVars>>
RegisterFrame ==
    UNCHANGED <<poolVars, dtmfVars, talkVars, recVars, gatewayVars, codecVars, sdpVars, sipVars, iceVars, menuVars,
               layoutVars,
               subVars>>
MenuFrame ==
    UNCHANGED <<poolVars, dtmfVars, talkVars, recVars, gatewayVars, codecVars, sdpVars, sipVars, iceVars,
               regVars,
               layoutVars,
               subVars>>
SubFrame ==
    UNCHANGED <<poolVars, dtmfVars, talkVars, recVars, gatewayVars, codecVars, sdpVars, sipVars, iceVars, menuVars, regVars, layoutVars>>
LayoutFrame ==
    UNCHANGED <<poolVars, dtmfVars, talkVars, recVars, gatewayVars, codecVars, sdpVars, sipVars, iceVars, menuVars, regVars,
               subVars>>

\* ------------------------------------------------------------------------
\* obelisk: PortPool
\* ------------------------------------------------------------------------
Callers == 1..NumCallers
NoCaller == 0
NoPair == -1

\* PortPool::init : number of pairs in [port_start, port_end]
port_pairs == (PortEnd - PortStart + 1) \div 2
Pairs == 0..(port_pairs - 1)
Ports == PortStart..PortEnd

\* create_rtp_socket_pair : port values of a pair
RtpPort(p) == PortStart + (p * 2)
RtcpPort(p) == RtpPort(p) + 1
PairPorts(p) == {RtpPort(p), RtcpPort(p)}

\* a pair index computed without the start of the range
PairOfPortNoStart(port) == port \div 2

\* clear_port : pair index of a port
PairOfPort(port) == (port - PortStart) \div 2

\* the candidates of one loop iteration: not known used, not failed locally
AvailablePairsNoUsedFilter(used, failed) == {p \in Pairs : p \notin failed}
AvailablePairs(used, failed) == {p \in Pairs : p \notin used /\ p \notin failed}

\* create_udp_socket : bind fails with AddressInUse iff somebody holds the port
AddressInUse(port) == port \in bound \/ port \in extern

PoolInit ==
    /\ used_pairs = {}
    /\ mutex = NoCaller
    /\ poolPc = [c \in Callers |-> "idle"]
    /\ failed_pairs = [c \in Callers |-> {}]
    /\ pair = [c \in Callers |-> NoPair]
    /\ bound = {}
    /\ asyncNull = {}
    /\ extern = {}
    /\ released = {}

\* create_rtp_socket_pair: `let mut used_pairs = self.used_pairs.lock();`
AcquireLock(c) ==
    /\ poolPc[c] = "idle"
    /\ mutex = NoCaller
    /\ mutex' = c
    /\ poolPc' = [poolPc EXCEPT ![c] = "loop"]
    /\ failed_pairs' = [failed_pairs EXCEPT ![c] = {}]
    /\ UNCHANGED <<used_pairs, pair, bound, asyncNull, extern, released>>
    /\ PoolFrame

\* loop head: draw a random available pair, or return Ok(None)
DrawPair(c) ==
    /\ poolPc[c] = "loop"
    /\ AvailablePairs(used_pairs, failed_pairs[c]) # {}
    /\ \E p \in AvailablePairs(used_pairs, failed_pairs[c]) :
          pair' = [pair EXCEPT ![c] = p]
    /\ poolPc' = [poolPc EXCEPT ![c] = "rtp"]
    /\ UNCHANGED <<used_pairs, mutex, failed_pairs, bound, asyncNull, extern, released>>
    /\ PoolFrame

ReturnNone(c) ==
    /\ poolPc[c] = "loop"
    /\ AvailablePairs(used_pairs, failed_pairs[c]) = {}
    /\ poolPc' = [poolPc EXCEPT ![c] = "idle"]
    /\ mutex' = NoCaller
    /\ pair' = [pair EXCEPT ![c] = NoPair]
    /\ UNCHANGED <<used_pairs, failed_pairs, bound, asyncNull, extern, released>>
    /\ PoolFrame

\* create_udp_socket(rtp_port)
BindRtp(c) ==
    /\ poolPc[c] = "rtp"
    /\ IF AddressInUse(RtpPort(pair[c]))
       THEN /\ failed_pairs' = [failed_pairs EXCEPT ![c] = @ \cup {pair[c]}]
            /\ poolPc' = [poolPc EXCEPT ![c] = "loop"]
            /\ UNCHANGED bound
       ELSE /\ bound' = bound \cup {RtpPort(pair[c])}
            /\ poolPc' = [poolPc EXCEPT ![c] = "rtcp"]
            /\ UNCHANGED failed_pairs
    /\ UNCHANGED <<used_pairs, mutex, pair, asyncNull, extern, released>>
    /\ PoolFrame

\* create_udp_socket(rtcp_port); on AddressInUse the rtp socket is dropped;
\* on success the pair is inserted into used_pairs and returned
BindRtcp(c) ==
    /\ poolPc[c] = "rtcp"
    /\ IF AddressInUse(RtcpPort(pair[c]))
       THEN /\ failed_pairs' = [failed_pairs EXCEPT ![c] = @ \cup {pair[c]}]
            /\ bound' = bound \ {RtpPort(pair[c])}
            /\ poolPc' = [poolPc EXCEPT ![c] = "loop"]
            /\ UNCHANGED <<used_pairs, mutex>>
       ELSE /\ bound' = bound \cup {RtcpPort(pair[c])}
            /\ used_pairs' = used_pairs \cup {pair[c]}
            /\ mutex' = NoCaller
            /\ poolPc' = [poolPc EXCEPT ![c] = "new"]
            /\ UNCHANGED failed_pairs
    /\ UNCHANGED <<pair, asyncNull, extern, released>>
    /\ PoolFrame

\* create_udp_socket returns Err (a bind error other than AddressInUse):
\* `?` leaves create_rtp_socket_pair, dropping the guard and the sockets
BindError(c) ==
    /\ poolPc[c] \in {"rtp", "rtcp"}
    /\ bound' = IF poolPc[c] = "rtcp" THEN bound \ {RtpPort(pair[c])} ELSE bound
    /\ mutex' = NoCaller
    /\ poolPc' = [poolPc EXCEPT ![c] = "idle"]
    /\ pair' = [pair EXCEPT ![c] = NoPair]
    /\ UNCHANGED <<used_pairs, failed_pairs, asyncNull, extern, released>>
    /\ PoolFrame

\* SipBin::new after create_rtp_socket_pair returned the pair: sdp::respond
\* or create_sip_bin returns Err and `?` leaves the function before a SipBin
\* exists; the sockets of the SocketPair are dropped, and nothing calls
\* clear_port
SipBinNewErrBeforeBin(c) ==
    /\ poolPc[c] = "new"
    /\ bound' = bound \ PairPorts(pair[c])
    /\ poolPc' = [poolPc EXCEPT ![c] = "idle"]
    /\ pair' = [pair EXCEPT ![c] = NoPair]
    /\ UNCHANGED <<used_pairs, mutex, failed_pairs, asyncNull, extern, released>>
    /\ PoolFrame

\* SipBin::new: set_destination or set_hold returns Err; `this` is dropped
\* on the way out, so SipBin::drop runs clear_port and the bin closes the
\* sockets
SipBinNewErrAfterBin(c) ==
    /\ poolPc[c] = "new"
    /\ mutex = NoCaller
    /\ bound' = bound \ PairPorts(pair[c])
    /\ used_pairs' = used_pairs \ {PairOfPort(RtpPort(pair[c]))}
    /\ released' = released \cup {PairOfPort(RtpPort(pair[c]))}
    /\ poolPc' = [poolPc EXCEPT ![c] = "idle"]
    /\ pair' = [pair EXCEPT ![c] = NoPair]
    /\ UNCHANGED <<mutex, failed_pairs, asyncNull, extern>>
    /\ PoolFrame

\* SipBin::new returns Ok((this, answer)): the MediaPipeline keeps the SipBin
SipBinNewOk(c) ==
    /\ poolPc[c] = "new"
    /\ poolPc' = [poolPc EXCEPT ![c] = "own"]
    /\ UNCHANGED <<used_pairs, mutex, failed_pairs, pair, bound, asyncNull, extern, released>>
    /\ PoolFrame

\* MediaPipeline::drop : queue set_state(Null) on the pipeline that holds the
\* udpsrc/udpsink elements owning the sockets; the SipBin field is dropped next
DropPipeline(c) ==
    /\ poolPc[c] = "own"
    /\ asyncNull' = asyncNull \cup {pair[c]}
    /\ poolPc' = [poolPc EXCEPT ![c] = "drop"]
    /\ UNCHANGED <<used_pairs, mutex, failed_pairs, pair, bound, extern, released>>
    /\ PoolFrame

\* the queued set_state(Null) runs: the elements close their sockets
NullPipeline(p) ==
    /\ p \in asyncNull
    /\ asyncNull' = asyncNull \ {p}
    /\ bound' = bound \ PairPorts(p)
    /\ UNCHANGED <<used_pairs, mutex, poolPc, failed_pairs, pair, extern, released>>
    /\ PoolFrame

\* SipBin::drop -> PortPool::clear_port(local_rtp_addr.port())
ClearPort(c) ==
    /\ poolPc[c] = "drop"
    /\ mutex = NoCaller
    /\ used_pairs' = used_pairs \ {PairOfPort(RtpPort(pair[c]))}
    /\ poolPc' = [poolPc EXCEPT ![c] = "idle"]
    /\ pair' = [pair EXCEPT ![c] = NoPair]
    /\ released' = released \cup {PairOfPort(RtpPort(pair[c]))}
    /\ UNCHANGED <<mutex, failed_pairs, bound, asyncNull, extern>>
    /\ PoolFrame

\* another process binds / releases a port of the range
ExternBind(port) ==
    /\ port \notin bound
    /\ port \notin extern
    /\ Cardinality(extern) < MaxExtern
    /\ extern' = extern \cup {port}
    /\ UNCHANGED <<used_pairs, mutex, poolPc, failed_pairs, pair, bound, asyncNull, released>>
    /\ PoolFrame

ExternRelease(port) ==
    /\ port \in extern
    /\ extern' = extern \ {port}
    /\ UNCHANGED <<used_pairs, mutex, poolPc, failed_pairs, pair, bound, asyncNull, released>>
    /\ PoolFrame

NextPool ==
    \/ \E c \in Callers : AcquireLock(c)
    \/ \E c \in Callers : DrawPair(c)
    \/ \E c \in Callers : ReturnNone(c)
    \/ \E c \in Callers : BindRtp(c)
    \/ \E c \in Callers : BindRtcp(c)
    \/ \E c \in Callers : BindError(c)
    \/ \E c \in Callers : SipBinNewErrBeforeBin(c)
    \/ \E c \in Callers : SipBinNewErrAfterBin(c)
    \/ \E c \in Callers : SipBinNewOk(c)
    \/ \E c \in Callers : DropPipeline(c)
    \/ \E p \in Pairs : NullPipeline(p)
    \/ \E c \in Callers : ClearPort(c)
    \/ \E port \in Ports : ExternBind(port)
    \/ \E port \in Ports : ExternRelease(port)

\* ------------------------------------------------------------------------
\* obelisk: custom DTMF depayloader
\* ------------------------------------------------------------------------
\* Option<u32>::None
NoTimestamp == -1
\* largest value of the RTP timestamp type
TsMax == (2 ^ TsWidth) - 1
\* event(8) + end(1) + reserved(1) + volume(6) + duration(16) bits are read
DtmfPayloadBytes == 4

\* representative RTP timestamps, both ends of the u32 range
Timestamps == {0, 1, 2, TsMax}
PayloadLens == {DtmfPayloadBytes - 1, DtmfPayloadBytes}

\* the BitReader reads succeed iff the payload holds all the fields
PayloadParses(len) == len >= DtmfPayloadBytes

\* `state.last_timestamp < Some(timestamp)` on Option<u32>: None is least
IsNewEventAnyChange(last, ts) == last = NoTimestamp \/ last # ts
IsNewEvent(last, ts) == last = NoTimestamp \/ last < ts

DtmfInit ==
    /\ last_timestamp = NoTimestamp
    /\ dtmfIn = <<>>
    /\ dtmfPosted = 0

\* RTPDtmfDepayClass::try_process_rtp_packet for one packet; the marker bit
\* is an input that the code never reads
ProcessRtpPacket(ts, marker, len) ==
    /\ Len(dtmfIn) < MaxPackets
    /\ dtmfIn' = Append(dtmfIn, [ts |-> ts, ok |-> PayloadParses(len)])
    /\ IF PayloadParses(len) /\ IsNewEvent(last_timestamp, ts)
       THEN /\ last_timestamp' = ts
            /\ dtmfPosted' = dtmfPosted + 1
       ELSE UNCHANGED <<last_timestamp, dtmfPosted>>
    /\ DtmfFrame

NextDtmf ==
    \E ts \in Timestamps, marker \in BOOLEAN, len \in PayloadLens :
        ProcessRtpPacket(ts, marker, len)

\* ------------------------------------------------------------------------
\* recorder: compositor Mixer (mixer/mod.rs) and Talk facade (mixer/talk.rs)
\* ------------------------------------------------------------------------
\* The Talk is one record: streams (Mixer.streams: id -> Stream), audio_pads
\* and video_pads (request pads held on the audiomixer / the compositor, by
\* owning stream), visibles (Mixer.visibles), names, current_speaker,
\* max_visibles and video_support (Mixer.video_mixer.is_some()). A Stream
\* keeps its status, whether its source has a video pad (src_video) and
\* whether Stream.video is Some (video).
\* Every operation yields [t |-> the Talk afterwards, ok |-> Ok(()) or Err].
Participants == 1..NumParticipants
\* Option<ID>::None
NoSpeaker == 0

MediaTypes == {"ScreenCapture", "Camera"}
StreamId(id, media_type) == [id |-> id, media_type |-> media_type]
StreamIds == {StreamId(p, mt) : p \in Participants, mt \in MediaTypes}

StatusNone == [has_audio |-> FALSE, has_video |-> FALSE]
StatusAudio == [has_audio |-> TRUE, has_video |-> FALSE]
StatusVideo == [has_audio |-> FALSE, has_video |-> TRUE]
StatusDefault == [has_audio |-> TRUE, has_video |-> TRUE]
\* the stream statuses handed to add_stream / set_status
StatusInputs == {StatusAudio, StatusDefault}

Ok(t) == [t |-> t, ok |-> TRUE]
Err(t) == [t |-> t, ok |-> FALSE]

Contains(s, x) == \E i \in 1..Len(s) : s[i] = x
\* Vec::retain(|other| other != x)
Retain(s, x) == SelectSeq(s, LAMBDA y : y # x)
\* Vec::insert(position, x), position counted from 0
InsertAt(s, position, x) ==
    SubSeq(s, 1, position) \o <<x>> \o SubSeq(s, position + 1, Len(s))
\* Vec::remove(index) of the first position holding x
RemoveFirst(s, x) ==
    LET index == CHOOSE i \in 1..Len(s) : s[i] = x /\ \A j \in 1..(i - 1) : s[j] # x
    IN SubSeq(s, 1, index - 1) \o SubSeq(s, index + 1, Len(s))

\* Talk::new -> Mixer::new
TalkNew(max_visibles, video_support) ==
    [streams |-> <<>>, audio_pads |-> {}, video_pads |-> {}, visibles |-> <<>>,
     names |-> {}, current_speaker |-> NoSpeaker,
     max_visibles |-> max_visibles, video_support |-> video_support]

\* Mixer::rerender_layout: walks visibles ++ invisibles and looks each id up
\* in streams ("stream not found"); nothing to do without a compositor
RerenderLayout(t) ==
    IF ~t.video_support
    THEN Ok(t)
    ELSE IF \E i \in 1..Len(t.visibles) : t.visibles[i] \notin DOMAIN t.streams
         THEN Err(t)
         ELSE Ok(t)

\* Mixer::add_stream: audio pad always, video pad iff there is a compositor
\* and the source has video
MixerAddStream(t, id, src_video, status) ==
    IF id \in DOMAIN t.streams
    THEN Err(t)
    ELSE LET video == t.video_support /\ src_video
             stream == [status |-> status, src_video |-> src_video, video |-> video]
         IN Ok([t EXCEPT
                 !.audio_pads = @ \cup {id},
                 !.video_pads = IF video THEN @ \cup {id} ELSE @,
                 !.streams = [x \in (DOMAIN t.streams) \cup {id} |->
                                 IF x = id THEN stream ELSE t.streams[x]]])

\* Mixer::remove_stream with a video pad kept on the compositor
MixerRemoveStreamKeepVideoPad(t, id) ==
    IF id \notin DOMAIN t.streams
    THEN Err(t)
    ELSE LET t1 == [t EXCEPT
                     !.streams = [x \in (DOMAIN t.streams) \ {id} |-> t.streams[x]],
                     !.audio_pads = @ \ {id}]
         IN IF Contains(t1.visibles, id)
            THEN RerenderLayout([t1 EXCEPT !.visibles = RemoveFirst(@, id)])
            ELSE Ok(t1)

\* Mixer::remove_stream: the registry entry goes first, then both request
\* pads are released, then the id leaves visibles
MixerRemoveStream(t, id) ==
    IF id \notin DOMAIN t.streams
    THEN Err(t)
    ELSE LET stream == t.streams[id]
             t1 == [t EXCEPT
                     !.streams = [x \in (DOMAIN t.streams) \ {id} |-> t.streams[x]],
                     !.audio_pads = @ \ {id},
                     !.video_pads = IF t.video_support /\ stream.video
                                    THEN @ \ {id} ELSE @]
         IN IF Contains(t1.visibles, id)
            THEN RerenderLayout([t1 EXCEPT !.visibles = RemoveFirst(@, id)])
            ELSE Ok(t1)

\* Mixer::show_stream
MixerShowStream(t, id, position_first) ==
    IF Contains(t.visibles, id)
    THEN Ok(t)
    ELSE RerenderLayout([t EXCEPT !.visibles =
            IF position_first THEN InsertAt(@, 0, id) ELSE Append(@, id)])

\* Mixer::set_stream_to_position (first position: 0, second position: 1);
\* Vec::insert panics past the end, which no caller in Talk can cause
SetStreamToPosition(t, id, position) ==
    IF Len(t.visibles) > 0 /\ t.visibles[1] = id
    THEN Ok(t)
    ELSE IF position > Len(Retain(t.visibles, id))
         THEN Err(t)
         ELSE RerenderLayout([t EXCEPT !.visibles = InsertAt(Retain(@, id), position, id)])

\* Mixer::hide_stream that clears the visible list
MixerHideStreamClear(t, id) ==
    IF ~Contains(t.visibles, id)
    THEN Ok(t)
    ELSE RerenderLayout([t EXCEPT !.visibles = <<>>])
\* Mixer::hide_stream
MixerHideStream(t, id) ==
    IF ~Contains(t.visibles, id)
    THEN Ok(t)
    ELSE RerenderLayout([t EXCEPT !.visibles = Retain(@, id)])

\* Mixer::set_status: get_stream_mut fails for an unknown id
MixerSetStatus(t, id, new_status) ==
    IF id \notin DOMAIN t.streams
    THEN Err(t)
    ELSE Ok([t EXCEPT !.streams[id].status = new_status])

\* Talk::get_first_screen_capture
HasScreenCapture(t) ==
    \E i \in 1..Len(t.visibles) : t.visibles[i].media_type = "ScreenCapture"
GetFirstScreenCapture(t) ==
    LET index == CHOOSE i \in 1..Len(t.visibles) :
                    /\ t.visibles[i].media_type = "ScreenCapture"
                    /\ \A j \in 1..(i - 1) : t.visibles[j].media_type # "ScreenCapture"
    IN t.visibles[index]

\* Talk::add_stream: the stream is registered and its status set; it is not
\* made visible here
TalkAddStream(t, id, src_video, initial) ==
    LET r == MixerAddStream(t, id, src_video, initial)
    IN IF ~r.ok
       THEN r
       ELSE MixerSetStatus([r.t EXCEPT !.names = @ \cup {id}], id, initial)

\* Talk::remove_stream
TalkRemoveStreamNoPromote(t, id) ==
    MixerRemoveStream([t EXCEPT !.names = @ \ {id}], id)
TalkRemoveStream(t, id) ==
    LET r == MixerRemoveStream([t EXCEPT !.names = @ \ {id}], id)
    IN IF ~r.ok
       THEN r
       ELSE IF HasScreenCapture(r.t)
            THEN SetStreamToPosition(r.t, GetFirstScreenCapture(r.t), 0)
            ELSE r

\* Talk::show_stream: at the cap a camera is ignored and a screen capture
\* replaces the last visible stream
TalkShowStreamNoEvict(t, id) ==
    IF Len(t.visibles) >= t.max_visibles /\ id.media_type = "Camera"
    THEN Ok(t)
    ELSE MixerShowStream(t, id, id.media_type = "ScreenCapture" /\ ~HasScreenCapture(t))
TalkShowStream(t, id) ==
    LET full == Len(t.visibles) >= t.max_visibles
        r == IF full /\ id.media_type # "Camera" /\ Len(t.visibles) > 0
             THEN MixerHideStream(t, t.visibles[Len(t.visibles)])
             ELSE Ok(t)
        position_first == id.media_type = "ScreenCapture" /\ ~HasScreenCapture(r.t)
    IN IF full /\ id.media_type = "Camera"
       THEN Ok(t)
       ELSE IF ~r.ok
            THEN r
            ELSE MixerShowStream(r.t, id, position_first)

\* Talk::hide_stream
TalkHideStream(t, id) == MixerHideStream(t, id)

\* Talk::set_status
TalkSetStatus(t, id, new_status) ==
    IF id \notin DOMAIN t.streams
    THEN Ok(t)
    ELSE LET old_status == t.streams[id].status
             r == MixerSetStatus(t, id, new_status)
         IN IF ~r.ok
            THEN r
            ELSE IF ~old_status.has_video /\ new_status.has_video
                 THEN TalkShowStream(r.t, id)
                 ELSE IF old_status.has_video /\ ~new_status.has_video
                      THEN TalkHideStream(r.t, id)
                      ELSE r

\* Talk::set_speaker
TalkSetSpeaker(t, speaker) ==
    LET t0 == [t EXCEPT !.current_speaker = speaker]
        screen == StreamId(speaker, "ScreenCapture")
        camera == StreamId(speaker, "Camera")
        r == IF screen \in DOMAIN t0.streams /\ t0.streams[screen].status.has_video
             THEN SetStreamToPosition(t0, screen, 0)
             ELSE Ok(t0)
    IN IF ~r.ok
       THEN r
       ELSE IF camera \in DOMAIN r.t.streams /\ r.t.streams[camera].status.has_video
            THEN IF ~HasScreenCapture(r.t)
                 THEN SetStreamToPosition(r.t, camera, 0)
                 ELSE SetStreamToPosition(r.t, camera, 1)
            ELSE r

\* Talk::unset_speaker
TalkUnsetSpeaker(t) == [t EXCEPT !.current_speaker = NoSpeaker]

TalkInit ==
    /\ talk = TalkNew(MaxVisibles, TRUE)
    /\ talkLast = "new"

\* a user of the library constructs a Talk with or without video support
NewTalk(video_support) ==
    /\ talk' = TalkNew(MaxVisibles, video_support)
    /\ talkLast' = "new"
    /\ TalkFrame

\* the calls that talkLast tells apart; every other call is noted as "call"
TrackedOps == {"new", "add_stream", "remove_stream", "remove_first_screen",
               "show_screen_at_cap"}
Tracked(op) == IF op \in TrackedOps THEN op ELSE "call"

\* one call of the Talk API; the Talk keeps the state the call left behind,
\* also when the call returned Err
TalkCall(op, r) ==
    /\ talk' = r.t
    /\ talkLast' = Tracked(op)
    /\ TalkFrame

AddStream(id, src_video, initial) ==
    TalkCall("add_stream", TalkAddStream(talk, id, src_video, initial))
\* a remove_stream of the first visible screen capture is noted apart
RemoveStream(id) ==
    TalkCall(IF HasScreenCapture(talk) /\ GetFirstScreenCapture(talk) = id
             THEN "remove_first_screen" ELSE "remove_stream",
             TalkRemoveStream(talk, id))
\* a show_stream of a screen capture made while the visible list is at the
\* cap is noted apart
ShowStream(id) ==
    TalkCall(IF Len(talk.visibles) >= talk.max_visibles /\ id.media_type = "ScreenCapture"
             THEN "show_screen_at_cap" ELSE "show_stream",
             TalkShowStream(talk, id))
HideStream(id) ==
    TalkCall("hide_stream", TalkHideStream(talk, id))
SetStatus(id, new_status) ==
    TalkCall("set_status", TalkSetStatus(talk, id, new_status))
SetSpeaker(speaker) ==
    TalkCall("set_speaker", TalkSetSpeaker(talk, speaker))
UnsetSpeaker ==
    TalkCall("unset_speaker", Ok(TalkUnsetSpeaker(talk)))

NextTalk ==
    \/ \E video_support \in BOOLEAN : NewTalk(video_support)
    \/ \E id \in StreamIds, src_video \in BOOLEAN, initial \in StatusInputs :
           AddStream(id, src_video, initial)
    \/ \E id \in StreamIds : RemoveStream(id)
    \/ \E id \in StreamIds : ShowStream(id)
    \/ \E id \in StreamIds : HideStream(id)
    \/ \E id \in StreamIds, new_status \in StatusInputs : SetStatus(id, new_status)
    \/ \E speaker \in Participants : SetSpeaker(speaker)
    \/ UnsetSpeaker

\* ------------------------------------------------------------------------
\* recorder: recording session (recorder.rs) over its signaling state
\* (signaling.rs) and its Talk
\* ------------------------------------------------------------------------
\* HashMap<MediaSessionType, MediaSessionState>::get -> None
NoMedia == [published |-> FALSE, video |-> FALSE, audio |-> FALSE]
MediaState(video, audio) == [published |-> TRUE, video |-> video, audio |-> audio]
\* the media states a participant announces: a screen share with video, a
\* camera with video and audio
MediaStates(media_type) ==
    IF media_type = "ScreenCapture"
    THEN {MediaState(TRUE, FALSE)}
    ELSE {MediaState(TRUE, TRUE)}
\* ParticipantState::from_incoming
ParticipantStates ==
    {state \in [consents : BOOLEAN,
                publishing : [MediaTypes -> {NoMedia, MediaState(TRUE, FALSE),
                                             MediaState(TRUE, TRUE)}]] :
        \A media_type \in MediaTypes :
            state.publishing[media_type] \in MediaStates(media_type) \cup {NoMedia}}
\* the rosters a JoinSuccess can carry
Rosters ==
    UNION {[ps -> ParticipantStates] : ps \in SUBSET Participants}

\* ParticipantState::publishes: nothing is published without consent
Publishes(state, media_type) ==
    IF ~state.consents THEN NoMedia ELSE state.publishing[media_type]

\* From<MediaSessionState> for StreamStatus
StatusOf(media_state) ==
    [has_audio |-> media_state.audio, has_video |-> media_state.video]

\* a session in flight inside a handler: its Talk, the Subscribe messages
\* the handler has sent so far and whether the handler is still Ok
Step(t, subs, ok) == [t |-> t, subs |-> subs, ok |-> ok]

\* outgoing MediaMessage::Subscribe, noted with the consent of its target
SubscribeMsg(id, roster) == [target |-> id, consents |-> roster[id.id].consents]

\* RecordingSession::subscribe; every source is created with video
\* (stream_params: WebRtcSourceParams::new(true))
Subscribe(s, roster, id, media_state) ==
    LET r == TalkAddStream(s.t, id, TRUE, StatusOf(media_state))
        subs == s.subs \cup {SubscribeMsg(id, roster)}
    IN IF ~r.ok
       THEN Step(r.t, s.subs, FALSE)
       ELSE IF media_state.video
            THEN LET r2 == TalkShowStream(r.t, id)
                 IN Step(r2.t, subs, r2.ok)
            ELSE Step(r.t, subs, TRUE)

\* the `for ... { self.subscribe(..).await?; }` loops: the streams of `todo`
\* are subscribed in order until one fails
RECURSIVE SubscribeAll(_, _, _)
SubscribeAll(s, roster, todo) ==
    IF ~s.ok \/ todo = <<>>
    THEN s
    ELSE LET id == Head(todo)
         IN SubscribeAll(Subscribe(s, roster, id, Publishes(roster[id.id], id.media_type)),
                         roster, Tail(todo))

\* media_types(): ScreenCapture first, then Camera
MediaTypeOrder == <<"ScreenCapture", "Camera">>

\* the streams of one participant that publishes() reports, in the order
\* of media_types()
PublishedStreams(id, state) ==
    SelectSeq(<<StreamId(id, MediaTypeOrder[1]), StreamId(id, MediaTypeOrder[2])>>,
              LAMBDA sid : Publishes(state, sid.media_type).published)

\* the orders in which the participants HashMap may be walked
Orders(S) ==
    {seq \in [1..Cardinality(S) -> S] : \A i, j \in 1..Cardinality(S) :
        seq[i] = seq[j] => i = j}

\* available_media_streams of Event::JoinSuccess: flat_map over the roster
RECURSIVE AvailableMediaStreams(_, _)
AvailableMediaStreams(roster, order) ==
    IF order = <<>>
    THEN <<>>
    ELSE PublishedStreams(Head(order), roster[Head(order)])
             \o AvailableMediaStreams(roster, Tail(order))

\* Event::ParticipantUpdated for one media type
UpdateOne(s, roster, id, state) ==
    LET is_subscribed == id \in DOMAIN s.t.streams
        media_state == Publishes(state, id.media_type)
    IN IF ~s.ok
       THEN s
       ELSE IF ~is_subscribed
            THEN IF media_state.published THEN Subscribe(s, roster, id, media_state) ELSE s
            ELSE IF ~media_state.published
                 THEN LET r == TalkRemoveStream(s.t, id) IN Step(r.t, s.subs, r.ok)
                 ELSE LET r == TalkSetStatus(s.t, id, StatusOf(media_state))
                      IN Step(r.t, s.subs, r.ok)

\* Event::ParticipantLeft for one media type
LeftOneKeepStream(s, id) == s
LeftOne(s, id) ==
    IF ~s.ok \/ id \notin DOMAIN s.t.streams
    THEN s
    ELSE LET r == TalkRemoveStream(s.t, id) IN Step(r.t, s.subs, r.ok)

RecorderInit ==
    /\ participants = <<>>
    /\ recTalk = TalkNew(MAX_VISIBLES, TRUE)
    /\ sent = {}
    /\ done = FALSE
    /\ recPc = "run"
    /\ runResult = "none"
    /\ endReason = "none"
    /\ uploaded = FALSE
    /\ dumped = FALSE
    /\ recordingFile = TRUE
    /\ sessionResult = "none"

\* the end of one turn of the `while !self.done` loop of
\* RecordingSession::run: an error of the handler ends run with Err, done
\* ends it with Ok; spawn_session then goes on to upload either way
Handled(s, new_done, reason) ==
    /\ recTalk' = s.t
    /\ sent' = s.subs
    /\ done' = new_done
    /\ runResult' = IF ~s.ok THEN "Err" ELSE IF new_done THEN "Ok" ELSE "none"
    /\ endReason' = IF ~s.ok THEN "error" ELSE IF new_done THEN reason ELSE "none"
    /\ recPc' = IF ~s.ok \/ new_done THEN "drop_talk" ELSE "run"
    /\ UNCHANGED <<uploaded, dumped, recordingFile, sessionResult>>
    /\ RecorderFrame

\* the handler starts with nothing sent
Here == Step(recTalk, {}, TRUE)

\* control message JoinSuccess -> Event::JoinSuccess
RecvJoinSuccess(roster, order) ==
    /\ recPc = "run"
    /\ order \in Orders(DOMAIN roster)
    /\ participants' = roster
    /\ Handled(SubscribeAll(Here, roster, AvailableMediaStreams(roster, order)), FALSE, "none")

\* control message Joined -> Event::ParticipantJoined
RecvJoined(id, state) ==
    /\ recPc = "run"
    /\ participants' = [p \in (DOMAIN participants) \cup {id} |->
                           IF p = id THEN state ELSE participants[p]]
    /\ Handled(SubscribeAll(Here, participants', PublishedStreams(id, state)), FALSE, "none")

\* control message Update -> Event::ParticipantUpdated; an update for an
\* unknown participant is logged and dropped
RecvUpdate(id, state) ==
    /\ recPc = "run"
    /\ IF id \in DOMAIN participants
       THEN /\ participants' = [participants EXCEPT ![id] = state]
            /\ Handled(UpdateOne(UpdateOne(Here, participants',
                                           StreamId(id, MediaTypeOrder[1]), state),
                                 participants', StreamId(id, MediaTypeOrder[2]), state),
                       FALSE, "none")
       ELSE /\ UNCHANGED participants
            /\ Handled(Here, FALSE, "none")

\* control message Left -> Event::ParticipantLeft; the session is done when
\* the roster is empty
RecvLeft(id) ==
    /\ recPc = "run"
    /\ participants' = [p \in (DOMAIN participants) \ {id} |-> participants[p]]
    /\ LET s == LeftOne(LeftOne(Here, StreamId(id, MediaTypeOrder[1])),
                        StreamId(id, MediaTypeOrder[2]))
       IN Handled(s, s.ok /\ DOMAIN participants' = {}, "roster_empty")

\* media message FocusUpdate -> Event::FocusUpdate
RecvFocusUpdate(focus) ==
    /\ recPc = "run"
    /\ UNCHANGED participants
    /\ IF focus # NoSpeaker
       THEN LET r == TalkSetSpeaker(recTalk, focus)
            IN Handled(Step(r.t, {}, r.ok), FALSE, "none")
       ELSE Handled(Step(TalkUnsetSpeaker(recTalk), {}, TRUE), FALSE, "none")

\* media message SdpOffer: without a source for the stream the offer is
\* dropped; with one, receive_offer and send_answer may fail
RecvSdpOffer(id, answered) ==
    /\ recPc = "run"
    /\ UNCHANGED participants
    /\ IF id \in DOMAIN recTalk.streams
       THEN Handled(Step(recTalk, {}, answered), FALSE, "none")
       ELSE Handled(Here, FALSE, "none")

\* media message SdpCandidate: handed to the source if there is one
RecvSdpCandidate(id) ==
    /\ recPc = "run"
    /\ UNCHANGED participants
    /\ Handled(Here, FALSE, "none")

\* media message SdpEndOfCandidates: fails for an unknown participant, a
\* stream that is not published and a stream without a source
RecvSdpEndOfCandidates(id) ==
    /\ recPc = "run"
    /\ UNCHANGED participants
    /\ Handled(Step(recTalk, {},
                    /\ id.id \in DOMAIN participants
                    /\ Publishes(participants[id.id], id.media_type).published
                    /\ id \in DOMAIN recTalk.streams), FALSE, "none")

\* websocket Close frame -> Event::Close
RecvClose ==
    /\ recPc = "run"
    /\ UNCHANGED participants
    /\ Handled(Here, TRUE, "close")

\* the websocket ends or fails: Signaling::run returns Err
RecvDisconnect ==
    /\ recPc = "run"
    /\ UNCHANGED participants
    /\ Handled(Step(recTalk, {}, FALSE), FALSE, "none")

\* the shutdown watch channel turns true
RecvShutdown ==
    /\ recPc = "run"
    /\ UNCHANGED participants
    /\ Handled(Here, TRUE, "shutdown")

\* RecordingSession::upload, first step: the Talk is dropped, Talk::drop
\* clears it
DropTalk ==
    /\ recPc = "drop_talk"
    /\ recTalk' = TalkNew(MAX_VISIBLES, TRUE)
    /\ recPc' = "upload"
    /\ UNCHANGED <<participants, sent, done, runResult, endReason, uploaded, dumped,
                   recordingFile, sessionResult>>
    /\ RecorderFrame

\* Recorder::upload -> HttpClient::upload_render: Ok ends the session with
\* Ok, an error leads to the dump
Upload(upload_ok) ==
    /\ recPc = "upload"
    /\ uploaded' = upload_ok
    /\ IF upload_ok
       THEN /\ sessionResult' = "Ok"
            /\ recPc' = "finished"
            /\ recordingFile' = FALSE
       ELSE /\ recPc' = "copy"
            /\ UNCHANGED <<sessionResult, recordingFile>>
    /\ UNCHANGED <<participants, recTalk, sent, done, runResult, endReason, dumped>>
    /\ RecorderFrame

\* tokio::fs::copy(recording_path, "DUMP.mp4").await?; then Err(upload_err).
\* The session, and with it the TempDir holding out.mp4, is dropped on return
Copy(copy_ok) ==
    /\ recPc = "copy"
    /\ dumped' = copy_ok
    /\ sessionResult' = IF copy_ok THEN "Err(upload)" ELSE "Err(copy)"
    /\ recPc' = "finished"
    /\ recordingFile' = FALSE
    /\ UNCHANGED <<participants, recTalk, sent, done, runResult, endReason, uploaded>>
    /\ RecorderFrame

NextRecorder ==
    \/ \E roster \in Rosters :
           \E order \in Orders(DOMAIN roster) :
               RecvJoinSuccess(roster, order)
    \/ \E id \in Participants, state \in ParticipantStates : RecvJoined(id, state)
    \/ \E id \in Participants, state \in ParticipantStates : RecvUpdate(id, state)
    \/ \E id \in Participants : RecvLeft(id)
    \/ \E focus \in Participants \cup {NoSpeaker} : RecvFocusUpdate(focus)
    \/ \E id \in StreamIds, answered \in BOOLEAN : RecvSdpOffer(id, answered)
    \/ \E id \in StreamIds : RecvSdpCandidate(id)
    \/ \E id \in StreamIds : RecvSdpEndOfCandidates(id)
    \/ RecvClose
    \/ RecvDisconnect
    \/ RecvShutdown
    \/ DropTalk
    \/ \E upload_ok \in BOOLEAN : Upload(upload_ok)
    \/ \E copy_ok \in BOOLEAN : Copy(copy_ok)

\* ------------------------------------------------------------------------
\* obelisk: dial-in call signaling (signaling.rs), the track player
\* (media/track.rs) and the shutdown sequence of the main task (sip.rs)
\*
\* One call is one task running handle_invite and then Signaling::run.  The
\* select! loop of run handles one event at a time: while a handler awaits
\* (join() awaits the controller, the websocket, the waiting room) no other
\* arm of the select! is polled.  The configuration without a SIP registrar
\* is modelled, so the call tasks hold the only shutdown receivers.
\* ------------------------------------------------------------------------
Calls == 1..NumCalls

\* DTMF digits a caller sends: while dialling in a representative of 0..=9,
\* `*` (10), `#` (11) and a representative of the rest (12); afterwards the
\* menu keys 0, 1, 2 and a representative of the unused keys (5)
DialDigits == {5, 10, 11, 12}
MenuDigits == {0, 1, 2, 5, 11}

\* outcome of the I/O a handler performs: none fails, a media pipeline call
\* fails, a websocket send fails
IoOutcomes == {"ok", "media_err", "ws_err"}

\* what HttpClient::start returns
StartOutcomes == {"Ok", "InvalidCredentials", "Err"}

\* what Websocket::join returns
JoinOutcomes == {"Joined", "InWaitingRoom", "Err"}

\* positions of the call task inside join()
JoinPcs == {"start", "connect", "join", "waiting_room", "enter_room"}

\* Signaling::new: the fields of a fresh Signaling, the ElementData of its
\* track player, and the history kept about the call
SignalingNew ==
    [pc |-> "idle",
     state |-> "Running",
     dtmf_id |-> <<>>,
     dtmf_pw |-> <<>>,
     websocket |-> FALSE,                  \* self.websocket.is_some()
     conn |-> "none",                      \* the websocket connection: none, open, closed, dropped
     publish_complete_pending |-> TRUE,
     muted |-> TRUE,
     hand_raised |-> FALSE,
     track |-> "None",                     \* ElementData.track
     responder |-> "None",                 \* ElementData.playback_finished_responder
     welcome_finished |-> 0,               \* messages queued in welcome_finished_channel
     closed_finished |-> 0,                \* messages queued in closed_finished_channel
     shutdown |-> "none",                  \* the shutdown receiver: none, empty, msg
     watchdog |-> "armed",                 \* the RTP watchdogs: armed, fired (Error queued), handled
     terminated |-> FALSE,                 \* sip.terminate() has completed
     starts |-> <<>>,                      \* what each controller.start returned
     log |-> <<>>,                         \* tracks passed to play_track, "publish" per offer sent
     result |-> "none"]                    \* what Signaling::run returned

\* ElementData::stop_playback: a playing track's responder is taken and fired
StopPlayback(s) ==
    LET fired == IF s.track # "None" THEN s.responder ELSE "None"
    IN [s EXCEPT !.welcome_finished = IF fired = "welcome" THEN @ + 1 ELSE @,
                 !.closed_finished = IF fired = "closed" THEN @ + 1 ELSE @,
                 !.responder = IF s.track # "None" THEN "None" ELSE @,
                 !.track = "None"]

\* TrackController::play_track_int
PlayTrackInt(s, track, responder) ==
    [StopPlayback(s) EXCEPT !.responder = responder,
                            !.track = IF track = "Silence" THEN "None" ELSE track,
                            !.log = Append(@, track)]

PlayTrack(s, track) == PlayTrackInt(s, track, "None")

PlayTrackAndRespond(s, track, responder) == PlayTrackInt(s, track, responder)

\* `while matches!(self.state, State::Running)` and what follows the loop
LoopCheck(s) ==
    [s EXCEPT !.pc = CASE s.state = "Running" -> "select"
                       [] s.state = "Quitting" -> "terminate"
                       [] OTHER -> "close_websocket"]

\* a select! arm whose handler returned Ok / Err
HandlerOk(s) == LoopCheck(s)
HandlerErr(s) == LoopCheck([s EXCEPT !.state = "Quitting"])

\* Signaling::run returns: the Signaling and the track player are dropped,
\* with them the shutdown receiver and a websocket that is still open; what
\* stays is the history of the call
RunReturns(s, result) ==
    [SignalingNew EXCEPT !.pc = "exited",
                         !.result = result,
                         !.state = s.state,
                         !.terminated = s.terminated,
                         !.conn = IF s.conn = "open" THEN "dropped" ELSE s.conn,
                         !.watchdog = s.watchdog,
                         !.starts = s.starts,
                         !.log = s.log]

\* join() failed after the connection was made: the local websocket is dropped
JoinErr(s) == HandlerErr([s EXCEPT !.conn = IF @ = "open" THEN "dropped" ELSE @])

\* join() returned Ok: self.websocket = Some(websocket), then WelcomeUsage
\* is played with the welcome responder
JoinOkNoPrompt(s) ==
    HandlerOk([s EXCEPT !.websocket = TRUE, !.welcome_finished = @ + 1])
JoinOk(s) ==
    HandlerOk(PlayTrackAndRespond([s EXCEPT !.websocket = TRUE], "WelcomeUsage", "welcome"))

\* join() returned InvalidCredentials
JoinInvalidCredentialsKeepPw(s) ==
    HandlerOk(PlayTrack([s EXCEPT !.dtmf_id = <<>>], "InputInvalid"))
JoinInvalidCredentials(s) ==
    HandlerOk(PlayTrack([s EXCEPT !.dtmf_id = <<>>, !.dtmf_pw = <<>>], "InputInvalid"))

\* handle_media_event with a `1` that leaves self.muted as it is
HandleDtmfDigitNoToggle(s, digit, io) ==
    IF Len(s.dtmf_pw) < PwDigits
    THEN CASE digit = 11 -> HandlerOk([s EXCEPT !.dtmf_id = <<>>, !.dtmf_pw = <<>>])
           [] digit = 10 -> HandlerOk(s)
           [] digit \in 0..9 ->
                IF Len(s.dtmf_id) < IdDigits
                THEN LET s1 == [s EXCEPT !.dtmf_id = Append(@, digit)]
                     IN HandlerOk(IF Len(s1.dtmf_id) = IdDigits
                                  THEN PlayTrack(s1, "WelcomePasscode")
                                  ELSE s1)
                ELSE LET s1 == [s EXCEPT !.dtmf_pw = Append(@, digit)]
                     IN IF Len(s1.dtmf_pw) = PwDigits
                        THEN [s1 EXCEPT !.pc = "start"]
                        ELSE HandlerOk(s1)
           [] OTHER -> HandlerOk(s)
    ELSE CASE digit = 0 -> HandlerOk(PlayTrack(s, "Silence"))
           [] digit = 1 ->
                IF s.websocket
                THEN LET s1 == s
                         s2 == PlayTrack(s1, IF s1.muted THEN "Muted" ELSE "Unmuted")
                     IN IF io = "ws_err" THEN HandlerErr(s2) ELSE HandlerOk(s2)
                ELSE HandlerOk(s)
           [] digit = 2 ->
                IF s.websocket
                THEN LET s1 == [s EXCEPT !.hand_raised = ~@]
                         s2 == PlayTrack(s1, IF s1.hand_raised THEN "HandRaised"
                                                                ELSE "HandLowered")
                     IN IF io = "ws_err" THEN HandlerErr(s2) ELSE HandlerOk(s2)
                ELSE HandlerOk(s)
           [] OTHER -> HandlerOk(s)

\* handle_media_event, MediaEvent::DtmfDigit
HandleDtmfDigit(s, digit, io) ==
    IF Len(s.dtmf_pw) < PwDigits
    THEN CASE digit = 11 -> HandlerOk([s EXCEPT !.dtmf_id = <<>>, !.dtmf_pw = <<>>])
           [] digit = 10 -> HandlerOk(s)
           [] digit \in 0..9 ->
                IF Len(s.dtmf_id) < IdDigits
                THEN LET s1 == [s EXCEPT !.dtmf_id = Append(@, digit)]
                     IN HandlerOk(IF Len(s1.dtmf_id) = IdDigits
                                  THEN PlayTrack(s1, "WelcomePasscode")
                                  ELSE s1)
                ELSE LET s1 == [s EXCEPT !.dtmf_pw = Append(@, digit)]
                     IN IF Len(s1.dtmf_pw) = PwDigits
                        THEN [s1 EXCEPT !.pc = "start"]
                        ELSE HandlerOk(s1)
           [] OTHER -> HandlerOk(s)
    ELSE CASE digit = 0 -> HandlerOk(PlayTrack(s, "Silence"))
           [] digit = 1 ->
                IF s.websocket
                THEN LET s1 == [s EXCEPT !.muted = ~@]
                         s2 == PlayTrack(s1, IF s1.muted THEN "Muted" ELSE "Unmuted")
                     IN IF io = "ws_err" THEN HandlerErr(s2) ELSE HandlerOk(s2)
                ELSE HandlerOk(s)
           [] digit = 2 ->
                IF s.websocket
                THEN LET s1 == [s EXCEPT !.hand_raised = ~@]
                         s2 == PlayTrack(s1, IF s1.hand_raised THEN "HandRaised"
                                                                ELSE "HandLowered")
                     IN IF io = "ws_err" THEN HandlerErr(s2) ELSE HandlerOk(s2)
                ELSE HandlerOk(s)
           [] OTHER -> HandlerOk(s)

\* the digits the caller is taken to send in the phase the call is in
DigitInputs(s) == IF Len(s.dtmf_pw) < PwDigits THEN DialDigits ELSE MenuDigits

\* Signaling::close_websocket
CloseWebsocketOk(s) ==
    IF s.websocket THEN [s EXCEPT !.websocket = FALSE, !.conn = "closed"] ELSE s

\* handle_websocket_event for the events that concern the call as a whole
WebsocketEvents == {"Err", "Receiving(true)", "Receiving(false)", "RequestMute",
                    "SessionEnded", "Disconnected"}

HandleWebsocketEvent(s, event, io) ==
    CASE event = "Err" -> HandlerErr(s)
      [] event = "Receiving(true)" ->
            IF s.publish_complete_pending
            THEN LET s1 == [s EXCEPT !.publish_complete_pending = FALSE]
                 IN IF io = "ws_err" THEN HandlerErr(s1) ELSE HandlerOk(s1)
            ELSE HandlerOk(s)
      [] event = "Receiving(false)" -> HandlerOk(s)
      [] event = "RequestMute" ->
            IF ~s.muted
            THEN LET s1 == [s EXCEPT !.muted = TRUE]
                     s2 == PlayTrack(s1, "ModeratorMuted")
                 IN IF io = "ws_err" THEN HandlerErr(s2) ELSE HandlerOk(s2)
            ELSE HandlerOk(s)
      [] event = "SessionEnded" ->
            IF io = "ws_err"
            THEN HandlerErr(s)
            ELSE HandlerOk(PlayTrackAndRespond(CloseWebsocketOk(s), "ConferenceClosed",
                                               "closed"))
      [] OTHER -> HandlerOk([s EXCEPT !.state = "Quitting"])

\* Signaling::begin_publish_and_subscriptions, run when the welcome
\* responder has fired
BeginPublishAndSubscriptions(s, io) ==
    CASE ~s.websocket -> HandlerErr(s)
      [] io # "ok" -> HandlerErr(s)
      [] OTHER -> HandlerOk([s EXCEPT !.log = Append(@, "publish")])

\* broadcast::Sender::receiver_count of the shutdown channel
ReceiverCount == Cardinality({c \in Calls : call[c].shutdown # "none"})

\* the call task has a step it takes without waiting for the caller, the
\* conference or the moderator: a queued channel message to receive, a
\* request whose answer is due, the steps after the loop
Ready(s) ==
    \/ s.pc \in {"start", "connect", "join", "enter_room", "terminate", "close_websocket"}
    \/ /\ s.pc = "select"
       /\ \/ s.shutdown = "msg"
          \/ s.welcome_finished > 0
          \/ s.closed_finished > 0
          \/ s.watchdog = "fired"

GatewayInit ==
    /\ call = [c \in Calls |-> SignalingNew]
    /\ mainPc = "running"
    /\ graceTicks = 0
    /\ activeAtShutdown = {}

\* a step of the task of call c that leaves the call as r; the tasks run
\* until the main task has returned
CallStep(c, r) ==
    /\ mainPc # "returned"
    /\ Len(r.log) <= MaxLog
    /\ r.pc = "start" => Len(r.starts) < MaxStarts
    /\ call' = [call EXCEPT ![c] = r]
    /\ UNCHANGED <<mainPc, graceTicks, activeAtShutdown>>
    /\ GatewayFrame

\* handle_invite: the call is accepted, WelcomeConferenceId is played, the
\* Signaling is created with a new shutdown receiver and run
Invite(c) ==
    /\ call[c].pc = "idle"
    /\ CallStep(c, [PlayTrack(SignalingNew, "WelcomeConferenceId")
                        EXCEPT !.pc = "select", !.shutdown = "empty"])

\* push_data: the track player has played the last sample of its track
TrackFinished(c) ==
    /\ call[c].pc \notin {"idle", "exited"}
    /\ call[c].track # "None"
    /\ CallStep(c, StopPlayback(call[c]))

\* select!: media.wait_for_event() yields a DTMF digit (one the bus watch
\* queued before a watchdog error, if one is queued)
DtmfDigit(c) ==
    /\ call[c].pc = "select"
    /\ \E digit \in DigitInputs(call[c]), io \in IoOutcomes :
          CallStep(c, HandleDtmfDigit(call[c], digit, io))

\* the bus watch of MediaPipeline::new: an rtp-watchdog element has posted
\* its error after 10 s without RTP; MediaEvent::Error is queued in the
\* events channel and the watch is removed (Continue(false))
WatchdogFires(c) ==
    /\ call[c].pc \notin {"idle", "exited"}
    /\ call[c].watchdog = "armed"
    /\ CallStep(c, [call[c] EXCEPT !.watchdog = "fired"])

\* select!: media.wait_for_event() yields the queued MediaEvent::Error
MediaError(c) ==
    /\ call[c].pc = "select"
    /\ call[c].watchdog = "fired"
    /\ CallStep(c, HandlerOk([call[c] EXCEPT !.watchdog = "handled",
                                              !.state = "Quitting"]))

\* select!: sip.drive()
SipEvents == {"Err", "RefreshNeeded", "ReInviteReceived", "ReInviteFailed", "Bye",
              "Terminated"}

SipDrive(c) ==
    /\ call[c].pc = "select"
    /\ \E event \in SipEvents :
          CallStep(c, CASE event = "Err" -> RunReturns(call[c], "Err")
                        [] event = "ReInviteFailed" ->
                              LoopCheck([call[c] EXCEPT !.state = "Quitting"])
                        [] event \in {"Bye", "Terminated"} ->
                              LoopCheck([call[c] EXCEPT !.state = "Terminated"])
                        [] OTHER -> LoopCheck(call[c]))

\* the frames the controller sends that concern the call as a whole: text
\* that is no Payload, the control and moderation messages of the join
\* phase, an sdp_answer whose SDP does not parse, a transport error, the
\* payloads of the events above, and a Close frame
ProtocolErrorFrames ==
    {"unparsable", "JoinSuccess", "InWaitingRoom", "Accepted", "SdpAnswer(malformed)"}
WebsocketFrames ==
    ProtocolErrorFrames \cup {"transport_error", "MediaStatus(true)", "MediaStatus(false)",
                              "RequestMute", "SessionEnded", "Close"}

\* Websocket::receive over receive_payload and payload_to_event: the event
\* it returns for a frame, "none" when it goes on to the next frame
PayloadToEvent(frame) ==
    CASE frame = "unparsable" -> "none"
      [] frame \in {"JoinSuccess", "InWaitingRoom", "Accepted"} -> "Err"
      [] frame = "transport_error" -> "Err"
      [] frame = "SdpAnswer(malformed)" -> "PublishResponse(malformed)"
      [] frame = "MediaStatus(true)" -> "Receiving(true)"
      [] frame = "MediaStatus(false)" -> "Receiving(false)"
      [] frame = "Close" -> "Disconnected"
      [] OTHER -> frame

\* the call after one frame has arrived at the select! loop
ReceiveFrame(s, frame, io) ==
    LET event == PayloadToEvent(frame)
    IN CASE event = "none" -> s
         [] event = "PublishResponse(malformed)" -> HandlerErr(s)
         [] OTHER -> HandleWebsocketEvent(s, event, io)

\* select!: websocket_receive, pending while there is no websocket
WebsocketReceive(c) ==
    /\ call[c].pc = "select"
    /\ call[c].websocket
    /\ \E frame \in WebsocketFrames, io \in IoOutcomes :
          CallStep(c, ReceiveFrame(call[c], frame, io))

\* select!: welcome_finished_channel_rx.recv()
WelcomeFinished(c) ==
    /\ call[c].pc = "select"
    /\ call[c].welcome_finished > 0
    /\ \E io \in IoOutcomes :
          CallStep(c, BeginPublishAndSubscriptions(
                          [call[c] EXCEPT !.welcome_finished = @ - 1], io))

\* select!: closed_finished_channel_rx.recv()
ClosedFinished(c) ==
    /\ call[c].pc = "select"
    /\ call[c].closed_finished > 0
    /\ CallStep(c, LoopCheck([call[c] EXCEPT !.closed_finished = @ - 1,
                                              !.state = "Quitting"]))

\* select!: shutdown.recv()
ShutdownRecv(c) ==
    /\ call[c].pc = "select"
    /\ call[c].shutdown = "msg"
    /\ CallStep(c, LoopCheck([call[c] EXCEPT !.shutdown = "empty", !.state = "Quitting"]))

\* join(): http_client.start(..).await returns
StartReply(c) ==
    /\ call[c].pc = "start"
    /\ \E outcome \in StartOutcomes :
          LET s == [call[c] EXCEPT !.starts = Append(@, outcome)]
          IN CallStep(c, CASE outcome = "Ok" -> [s EXCEPT !.pc = "connect"]
                           [] outcome = "InvalidCredentials" -> JoinInvalidCredentials(s)
                           [] OTHER -> JoinErr(s))

\* join(): Websocket::connect(..).await returns
Connect(c) ==
    /\ call[c].pc = "connect"
    /\ \E ok \in BOOLEAN :
          CallStep(c, IF ok THEN [call[c] EXCEPT !.pc = "join", !.conn = "open"]
                            ELSE JoinErr(call[c]))

\* join(): websocket.join(name).await returns
JoinReply(c) ==
    /\ call[c].pc = "join"
    /\ \E outcome \in JoinOutcomes :
          CallStep(c, CASE outcome = "Joined" -> JoinOk(call[c])
                        [] outcome = "InWaitingRoom" ->
                              [PlayTrack(call[c], "EnteredWaitingRoom")
                                  EXCEPT !.pc = "waiting_room"]
                        [] OTHER -> JoinErr(call[c]))

\* join(): wait_until_accepted_into_waiting_room().await returns, when the
\* moderator accepts the caller or the connection is closed
WaitUntilAccepted(c) ==
    /\ call[c].pc = "waiting_room"
    /\ \E accepted \in BOOLEAN :
          CallStep(c, IF accepted THEN [call[c] EXCEPT !.pc = "enter_room"]
                                  ELSE JoinErr(call[c]))

\* join(): enter_from_waiting_room().await returns
EnterRoom(c) ==
    /\ call[c].pc = "enter_room"
    /\ \E ok \in BOOLEAN :
          CallStep(c, IF ok THEN JoinOk(call[c]) ELSE JoinErr(call[c]))

\* after the loop: `if Quitting { self.sip.terminate().await?; }`
SipTerminate(c) ==
    /\ call[c].pc = "terminate"
    /\ \E ok \in BOOLEAN :
          CallStep(c, IF ok THEN [call[c] EXCEPT !.terminated = TRUE,
                                                 !.pc = "close_websocket"]
                            ELSE RunReturns(call[c], "Err"))

\* after the loop: `self.close_websocket().await?; Ok(())`
CloseWebsocket(c) ==
    /\ call[c].pc = "close_websocket"
    /\ \E ok \in BOOLEAN :
          CallStep(c, IF ok \/ ~call[c].websocket
                      THEN RunReturns(CloseWebsocketOk(call[c]), "Ok")
                      ELSE RunReturns(call[c], "Err"))

\* sip::run: ctrl_c() returns and `shutdown.send(())` queues the message for
\* every receiver that exists
CtrlC ==
    /\ mainPc = "running"
    /\ mainPc' = "waiting"
    /\ call' = [c \in Calls |->
                   [call[c] EXCEPT !.shutdown = IF @ = "none" THEN "none" ELSE "msg"]]
    /\ activeAtShutdown' = {c \in Calls : call[c].pc \notin {"idle", "exited"}}
    /\ UNCHANGED graceTicks
    /\ GatewayFrame

\* sip::run: one `sleep(Duration::from_secs(1))` of the shutdown sequence; a
\* second passes only when no call task has a step ready
GraceSleep ==
    /\ mainPc = "waiting"
    /\ graceTicks < ShutdownGrace
    /\ ReceiverCount > 0
    /\ \A c \in Calls : ~Ready(call[c])
    /\ graceTicks' = graceTicks + 1
    /\ UNCHANGED <<call, mainPc, activeAtShutdown>>
    /\ GatewayFrame

\* sip::run: the loop ends (`break`, or the tenth iteration is over) and
\* run returns, which ends the process
MainReturn ==
    /\ mainPc = "waiting"
    /\ graceTicks = ShutdownGrace \/ ReceiverCount = 0
    /\ \A c \in Calls : ~Ready(call[c])
    /\ mainPc' = "returned"
    /\ UNCHANGED <<call, graceTicks, activeAtShutdown>>
    /\ GatewayFrame

NextGateway ==
    \/ \E c \in Calls : Invite(c)
    \/ \E c \in Calls : TrackFinished(c)
    \/ \E c \in Calls : DtmfDigit(c)
    \/ \E c \in Calls : WatchdogFires(c)
    \/ \E c \in Calls : MediaError(c)
    \/ \E c \in Calls : SipDrive(c)
    \/ \E c \in Calls : WebsocketReceive(c)
    \/ \E c \in Calls : WelcomeFinished(c)
    \/ \E c \in Calls : ClosedFinished(c)
    \/ \E c \in Calls : ShutdownRecv(c)
    \/ \E c \in Calls : StartReply(c)
    \/ \E c \in Calls : Connect(c)
    \/ \E c \in Calls : JoinReply(c)
    \/ \E c \in Calls : WaitUntilAccepted(c)
    \/ \E c \in Calls : EnterRoom(c)
    \/ \E c \in Calls : SipTerminate(c)
    \/ \E c \in Calls : CloseWebsocket(c)
    \/ CtrlC
    \/ GraceSleep
    \/ MainReturn

\* ------------------------------------------------------------------------
\* obelisk: codec choice of the SDP negotiator (media/sip_bin/codec.rs)
\* ------------------------------------------------------------------------
\* List of all codecs sorted by priority
CODEC_LIST ==
    << [static_payload |-> 9, name |-> "G722"],
       [static_payload |-> 8, name |-> "PCMA"],
       [static_payload |-> 0, name |-> "PCMU"] >>

\* payload numbers an offer uses: the three static ones and a dynamic one
Payloads == {0, 8, 9, 96}

\* encoding names an offer uses in a=rtpmap
Encodings == {"G722", "g722", "PCMA", "opus"}

\* str::to_ascii_lowercase on the names that occur
ToAsciiLowercase(name) ==
    CASE name = "G722" -> "g722"
      [] name = "PCMA" -> "pcma"
      [] name = "PCMU" -> "pcmu"
      [] OTHER -> name

\* str::eq_ignore_ascii_case
EqIgnoreAsciiCase(a, b) == ToAsciiLowercase(a) = ToAsciiLowercase(b)

\* Option<&RtpMap>::None and Option<SdpCodecInfo>::None
NoRtpmap == [payload |-> -1, encoding |-> "None"]
NoCodec == [codec |-> "None", rtpmap |-> NoRtpmap]

RtpMaps == [payload : Payloads, encoding : Encodings]

\* sequences over S of length at most n
SeqsUpTo(S, n) == UNION {[1..k -> S] : k \in 0..n}

\* the media sections the model feeds to choose_codec
MediaOffers == [fmts : SeqsUpTo(Payloads, MaxFmts), rtpmaps : SeqsUpTo(RtpMaps, MaxRtpmaps)]

\* the least element of a non-empty set of numbers
Least(S) == CHOOSE x \in S : \A y \in S : x <= y

\* offer.rtpmaps.iter().find(|x| x.payload == *payload)
FindRtpmap(rtpmaps, payload) ==
    LET I == {i \in 1..Len(rtpmaps) : rtpmaps[i].payload = payload}
    IN IF I = {} THEN NoRtpmap ELSE rtpmaps[Least(I)]

\* (entry.create)(rtpmap, fmtp): g722_create needs an rtpmap, pcma_create and
\* pcmu_create fall back to the rtpmap of the static payload type
Create(entry, rtpmap) ==
    CASE rtpmap # NoRtpmap -> [codec |-> entry.name, rtpmap |-> rtpmap]
      [] entry.name = "G722" -> NoCodec
      [] OTHER -> [codec |-> entry.name,
                   rtpmap |-> [payload |-> entry.static_payload, encoding |-> entry.name]]

\* choose_codec, first inner loop: the payload numbers of the m= line
ByStaticPayload(entry, offer) ==
    IF \E i \in 1..Len(offer.fmts) : offer.fmts[i] = entry.static_payload
    THEN Create(entry, FindRtpmap(offer.rtpmaps, entry.static_payload))
    ELSE NoCodec

\* choose_codec, second inner loop: the rtpmaps by encoding name
ByName(entry, offer) ==
    LET I == {i \in 1..Len(offer.rtpmaps) :
                 EqIgnoreAsciiCase(offer.rtpmaps[i].encoding, entry.name)}
    IN IF I = {} THEN NoCodec ELSE Create(entry, offer.rtpmaps[Least(I)])

\* choose_codec, the entries from the k-th on
RECURSIVE ChooseFrom(_, _)
ChooseFrom(k, offer) ==
    IF k > Len(CODEC_LIST)
    THEN NoCodec
    ELSE LET entry == CODEC_LIST[k]
             static == ByStaticPayload(entry, offer)
             named == ByName(entry, offer)
         IN CASE static # NoCodec -> static
              [] named # NoCodec -> named
              [] OTHER -> ChooseFrom(k + 1, offer)

ChooseCodec(offer) == ChooseFrom(1, offer)

\* gst_elements.payload_caps.payload as g722_create, pcma_create and
\* pcmu_create set it: the static payload type of the codec, whatever the
\* rtpmap of the offer says
PayloadCapsPayload(codec_info) ==
    CASE codec_info.codec = "G722" -> 9
      [] codec_info.codec = "PCMA" -> 8
      [] codec_info.codec = "PCMU" -> 0

\* sdp::respond: `fmts: vec![codec_info.rtpmap.payload]`, the payload type
\* the answer advertises for the codec
AnswerFmt(codec_info) == codec_info.rtpmap.payload

\* on_request_pt_map (`pt == payload_caps.payload`) and try_on_pad_added
\* (`expected_media_pt as i32 == payload`): the payload type that gets the
\* caps, the depayloader and the decoder of the codec
IsMediaPt(codec_info, pt) == pt = PayloadCapsPayload(codec_info)

CodecInit ==
    /\ mediaOffer = [fmts |-> <<>>, rtpmaps |-> <<>>]
    /\ codecInfo = NoCodec
    /\ codecPc = "idle"

\* an offer arrives and choose_codec(&media) is called on its media section
Choose ==
    /\ codecPc = "idle"
    /\ \E offer \in MediaOffers :
          /\ mediaOffer' = offer
          /\ codecInfo' = ChooseCodec(offer)
    /\ codecPc' = "done"
    /\ CodecFrame

NextCodec == Choose

\* ------------------------------------------------------------------------
\* obelisk: SDP negotiation (media/sip_bin/sdp.rs)
\* ------------------------------------------------------------------------
Directions == {"SendRecv", "RecvOnly", "SendOnly", "Inactive"}

\* IP addresses of a c= line: the unspecified ones of IPv4 and IPv6 and two
\* hosts
Ips == {"0.0.0.0", "::", "192.0.2.1", "192.0.2.2"}

\* IpAddr::is_unspecified
IsUnspecified(ip) == ip \in {"0.0.0.0", "::"}

\* an absent c= line (Option<Connection>::None), an absent a=rtcp attribute
NoAddr == "None"
NoPort == 0

\* ports of the m= line and of the a=rtcp attribute
RtpPorts == {4000, 4002}
RtcpAttrPorts == {4005}

\* media sections of the offers: one that lists PCMA, one that lists no
\* codec of CODEC_LIST
PcmaMedia == [fmts |-> <<8>>, rtpmaps |-> <<>>]
OpusMedia == [fmts |-> <<96>>, rtpmaps |-> <<[payload |-> 96, encoding |-> "opus"]>>]

\* the offers the model hands to respond
SdpOffers ==
    [media_scopes : {1, 2},                      \* offer.media_scopes.len()
     media_type : {"Audio", "Video"},            \* media.desc.media_type
     media : {PcmaMedia, OpusMedia},             \* fmts and rtpmaps of the media section
     telephone_event : BOOLEAN,                  \* an rtpmap telephone-event/8000 is present
     origin_parses : BOOLEAN,                    \* session_id and session_version parse as u64
     session_version : 0..MaxVersion,            \* offer.origin.session_version
     direction : Directions,                     \* media.direction
     media_connection : {NoAddr} \cup Ips,       \* media.connection
     session_connection : {NoAddr} \cup Ips,     \* offer.connection
     port : RtpPorts,                            \* media.desc.port
     rtcp_attr : {NoPort} \cup RtcpAttrPorts]    \* media.rtcp_attr

SocketAddr(ip, port) == [ip |-> ip, port |-> port]

\* Err(Error::InvalidOffer)
InvalidOffer ==
    [ok |-> FALSE, remote_version |-> 0, rtp_addr |-> SocketAddr(NoAddr, NoPort),
     rtcp_addr |-> SocketAddr(NoAddr, NoPort), direction |-> "Inactive"]

\* media.connection.or(offer.connection)
ConnectionOf(offer) ==
    IF offer.media_connection # NoAddr THEN offer.media_connection
                                       ELSE offer.session_connection

\* respond: the direction of the answer
AnswerDirectionNoCollapse(direction, origin_unspecified) ==
    CASE direction = "RecvOnly" -> "SendOnly"
      [] direction = "SendOnly" -> "RecvOnly"
      [] OTHER -> direction
AnswerDirection(direction, origin_unspecified) ==
    CASE direction = "SendRecv" /\ origin_unspecified -> "RecvOnly"
      [] direction = "SendRecv" -> "SendRecv"
      [] direction = "RecvOnly" /\ origin_unspecified -> "Inactive"
      [] direction = "RecvOnly" -> "SendOnly"
      [] direction = "SendOnly" -> "RecvOnly"
      [] OTHER -> "Inactive"

\* respond: the SessionInfo for an offer, or InvalidOffer
SdpRespond(offer) ==
    CASE offer.media_scopes # 1 -> InvalidOffer
      [] offer.media_type # "Audio" -> InvalidOffer
      [] ChooseCodec(offer.media) = NoCodec -> InvalidOffer
      [] ~offer.origin_parses -> InvalidOffer
      [] ConnectionOf(offer) = NoAddr -> InvalidOffer
      [] ~offer.telephone_event -> InvalidOffer
      [] OTHER ->
           LET peer_rtp_port == offer.port
               peer_rtcp_port == IF offer.rtcp_attr # NoPort THEN offer.rtcp_attr
                                                              ELSE peer_rtp_port + 1
               peer_rtp_addr == SocketAddr(ConnectionOf(offer), peer_rtp_port)
               origin_unspecified == IsUnspecified(peer_rtp_addr.ip)
           IN [ok |-> TRUE,
               remote_version |-> offer.session_version,
               rtp_addr |-> peer_rtp_addr,
               rtcp_addr |-> SocketAddr(peer_rtp_addr.ip, peer_rtcp_port),
               direction |-> AnswerDirection(offer.direction, origin_unspecified)]

SdpInit ==
    /\ sdpOffer = CHOOSE offer \in SdpOffers : TRUE
    /\ sdpResult = InvalidOffer
    /\ sdpPc = "idle"

\* an offer arrives and respond is called on it
Respond ==
    /\ sdpPc = "idle"
    /\ \E offer \in SdpOffers :
          /\ sdpOffer' = offer
          /\ sdpResult' = SdpRespond(offer)
    /\ sdpPc' = "done"
    /\ SdpFrame

NextSdp == Respond

\* ------------------------------------------------------------------------
\* obelisk: SipBin (media/sip_bin/mod.rs)
\* ------------------------------------------------------------------------
\* create_sip_bin: `udpsink host=127.0.0.1 port=9`, the destination before
\* any is set and the one used when the peer wants no RTP
DiscardAddr == SocketAddr("127.0.0.1", 9)

\* the offers of the INVITE and the reINVITEs of one call: well-formed or
\* without telephone-event, the address in the media section
SipOffers ==
    {offer \in SdpOffers :
        /\ offer.media_scopes = 1
        /\ offer.media_type = "Audio"
        /\ offer.media = PcmaMedia
        /\ offer.origin_parses
        /\ offer.session_connection = NoAddr
        /\ offer.media_connection # "::"
        /\ offer.rtcp_attr = NoPort}

\* matches!(direction, Direction::SendRecv | Direction::SendOnly)
SendData(session_info) == session_info.direction \in {"SendRecv", "SendOnly"}

\* SipBin::set_destination
SetDestination(bin, remote_rtp_addr, remote_rtcp_addr) ==
    [bin EXCEPT !.rtp_udpsink = remote_rtp_addr, !.rtcp_udpsink = remote_rtcp_addr]

\* SipBin::set_hold, SipBin::set_unhold
SetHold(bin) == [bin EXCEPT !.valve_drop = TRUE]
SetUnhold(bin) == [bin EXCEPT !.valve_drop = FALSE]

\* no SipBin yet
NoSipBin ==
    [created |-> FALSE, version |-> 0, current_session_info |-> InvalidOffer,
     rtp_udpsink |-> DiscardAddr, rtcp_udpsink |-> DiscardAddr, valve_drop |-> FALSE]

\* SipBin::new for an offer respond accepted; version counts from the one
\* of the first answer
SipBinCreate(session_info) ==
    LET this == [NoSipBin EXCEPT !.created = TRUE, !.current_session_info = session_info]
        dest == IF ~IsUnspecified(session_info.rtp_addr.ip)
                THEN SetDestination(this, session_info.rtp_addr, session_info.rtcp_addr)
                ELSE this
    IN IF ~SendData(session_info) THEN SetHold(dest) ELSE dest

\* SipBin::update: `session_info.remote_version > current.remote_version`
RemoteVersionAdvancedOrSame(session_info, current) ==
    session_info.remote_version >= current.remote_version
RemoteVersionAdvanced(session_info, current) ==
    session_info.remote_version > current.remote_version

\* SipBin::update: the udpsinks follow the offer
UpdateDestination(bin, session_info) ==
    CASE IsUnspecified(session_info.rtp_addr.ip) -> SetDestination(bin, DiscardAddr, DiscardAddr)
      [] \/ session_info.rtp_addr # bin.current_session_info.rtp_addr
         \/ session_info.rtcp_addr # bin.current_session_info.rtcp_addr
           -> SetDestination(bin, session_info.rtp_addr, session_info.rtcp_addr)
      [] OTHER -> bin

\* SipBin::update for an offer respond accepted
SipBinApply(bin, session_info) ==
    LET applied ==
            IF RemoteVersionAdvanced(session_info, bin.current_session_info)
            THEN LET dest == UpdateDestination(bin, session_info)
                 IN IF SendData(session_info) THEN SetUnhold(dest) ELSE SetHold(dest)
            ELSE bin
    IN [applied EXCEPT !.current_session_info = session_info]

SipInit ==
    /\ sipBin = NoSipBin
    /\ sipLast = [op |-> "none", ok |-> FALSE, advanced |-> FALSE,
                  seen |-> 0, newest |-> FALSE]
    /\ sipState = "Running"
    /\ sipResponse = 0

\* SipBin::new(pub_addr, offer, ..), called for the first INVITE
SipBinNew ==
    /\ ~sipBin.created
    /\ \E offer \in SipOffers :
          LET session_info == SdpRespond(offer)
          IN /\ sipBin' = IF session_info.ok THEN SipBinCreate(session_info) ELSE sipBin
             /\ sipLast' = [op |-> "new", ok |-> session_info.ok, advanced |-> FALSE,
                            seen |-> IF session_info.ok
                                     THEN session_info.remote_version ELSE 0,
                            newest |-> session_info.ok]
             /\ sipResponse' = IF session_info.ok THEN 200 ELSE 500
    /\ UNCHANGED sipState
    /\ SipFrame

\* handle_reinvite: the status code of the response and whether the
\* function returns Err. A body that is not application/sdp is answered
\* with 406 and bail!; a failed SipBin::update is answered with 500 and
\* Ok(()); `?` on a response that cannot be sent returns Err
HandleReinvite(body_is_sdp, update_ok, responded) ==
    CASE ~body_is_sdp -> [code |-> 406, err |-> TRUE]
      [] update_ok -> [code |-> 200, err |-> ~responded]
      [] OTHER -> [code |-> 500, err |-> ~responded]

\* Signaling::run, Event::ReInviteReceived: handle_reinvite, which calls
\* SipBin::update(offer) through on_reinvite for an SDP body; an Err of
\* handle_reinvite sets Quitting
SipBinUpdate ==
    /\ sipBin.created
    /\ sipState = "Running"
    /\ sipBin.version < MaxUpdates
    /\ \E offer \in SipOffers, body_is_sdp \in BOOLEAN, responded \in BOOLEAN :
          LET session_info == SdpRespond(offer)
              bin == [sipBin EXCEPT !.version = @ + 1]
              r == HandleReinvite(body_is_sdp, session_info.ok, responded)
          IN /\ sipBin' = IF ~body_is_sdp
                          THEN sipBin
                          ELSE IF session_info.ok
                               THEN SipBinApply(bin, session_info)
                               ELSE bin
             /\ sipLast' = IF ~body_is_sdp
                           THEN [sipLast EXCEPT !.op = "not_sdp", !.ok = FALSE,
                                                !.advanced = FALSE, !.newest = FALSE]
                           ELSE [op |-> "update", ok |-> session_info.ok,
                                 advanced |-> session_info.ok /\
                                     RemoteVersionAdvanced(session_info,
                                                           sipBin.current_session_info),
                                 seen |-> IF /\ session_info.ok
                                             /\ session_info.remote_version > sipLast.seen
                                          THEN session_info.remote_version
                                          ELSE sipLast.seen,
                                 newest |-> /\ session_info.ok
                                            /\ session_info.remote_version > sipLast.seen]
             /\ sipResponse' = r.code
             /\ sipState' = IF r.err THEN "Quitting" ELSE "Running"
    /\ SipFrame

NextSipBin == SipBinNew \/ SipBinUpdate

\* ------------------------------------------------------------------------
\* obelisk: routing of the controller's ICE candidates
\* (websocket.rs payload_to_event, media/mod.rs send_sdp_candidate)
\* ------------------------------------------------------------------------
Uuids == 1..NumUuids
\* Option<Uuid>::None
NoUuid == 0
\* the id the controller assigns in join_success
SelfUuid == 1
RemoteUuids == Uuids \ {SelfUuid}

\* Target::Publish, Target::Subscribe(uuid)
TargetPublish == [kind |-> "Publish", uuid |-> NoUuid]
TargetSubscribe(uuid) == [kind |-> "Subscribe", uuid |-> uuid]

\* send_sdp_candidate: target_name, "publish" or "subscribe:{uuid}"
TargetName(target) ==
    IF target.kind = "Publish"
    THEN [name |-> "publish", uuid |-> NoUuid]
    ELSE [name |-> "subscribe", uuid |-> target.uuid]

\* pipeline.by_name found no bin
NoBin == [name |-> "none", uuid |-> NoUuid]

\* payload_to_event, MediaPayload::SdpCandidate
CandidateTarget(id, source) ==
    IF source = id THEN TargetPublish ELSE TargetSubscribe(source)

\* payload_to_event, MediaPayload::SdpEndCandidates
EndCandidatesTarget(id, source) ==
    IF source = id THEN TargetPublish ELSE TargetSubscribe(id)

\* send_sdp_candidate: the bin that gets add-ice-candidate, NoBin after the
\* warning "tried to add-ice-candidate for ..."
SendSdpCandidate(bins, target) ==
    IF TargetName(target) \in bins THEN TargetName(target) ELSE NoBin

IceInit ==
    /\ selfId = NoUuid
    /\ pipelineBins = {}
    /\ iceLast = [op |-> "new", source |-> NoUuid, bin |-> NoBin]

\* join: self.id = Some(join_success.id)
IceJoinSuccess ==
    /\ selfId = NoUuid
    /\ selfId' = SelfUuid
    /\ iceLast' = [op |-> "join_success", source |-> NoUuid, bin |-> NoBin]
    /\ UNCHANGED pipelineBins
    /\ IceFrame

\* create_publish after the join: bails when the publish bin exists
IceCreatePublish ==
    /\ selfId # NoUuid
    /\ TargetName(TargetPublish) \notin pipelineBins
    /\ pipelineBins' = pipelineBins \cup {TargetName(TargetPublish)}
    /\ iceLast' = [op |-> "create_publish", source |-> NoUuid, bin |-> NoBin]
    /\ UNCHANGED selfId
    /\ IceFrame

\* WebsocketEvent::SubscribeOffer { uuid }: create_subscribe adds subscribe:{uuid}
IceCreateSubscribe ==
    /\ selfId # NoUuid
    /\ \E uuid \in RemoteUuids :
          /\ TargetName(TargetSubscribe(uuid)) \notin pipelineBins
          /\ pipelineBins' = pipelineBins \cup {TargetName(TargetSubscribe(uuid))}
          /\ iceLast' = [op |-> "sdp_offer", source |-> uuid, bin |-> NoBin]
    /\ UNCHANGED selfId
    /\ IceFrame

\* Left, or an Update without audio: remove_subscribe(uuid)
IceRemoveSubscribe ==
    /\ selfId # NoUuid
    /\ \E uuid \in RemoteUuids :
          /\ pipelineBins' = pipelineBins \ {TargetName(TargetSubscribe(uuid))}
          /\ iceLast' = [op |-> "remove_subscribe", source |-> uuid, bin |-> NoBin]
    /\ UNCHANGED selfId
    /\ IceFrame

\* an sdp_candidate of `source`: CandidateReceived, on_sdp_candidate
IceSdpCandidate ==
    /\ selfId # NoUuid
    /\ \E source \in Uuids :
          iceLast' = [op |-> "sdp_candidate", source |-> source,
                      bin |-> SendSdpCandidate(pipelineBins, CandidateTarget(selfId, source))]
    /\ UNCHANGED <<selfId, pipelineBins>>
    /\ IceFrame

\* an sdp_end_of_candidates of `source`: EndOfCandidate, on_sdp_end_of_candidates
IceSdpEndCandidates ==
    /\ selfId # NoUuid
    /\ \E source \in Uuids :
          iceLast' = [op |-> "sdp_end_of_candidates", source |-> source,
                      bin |-> SendSdpCandidate(pipelineBins, EndCandidatesTarget(selfId, source))]
    /\ UNCHANGED <<selfId, pipelineBins>>
    /\ IceFrame

NextIce ==
    \/ IceJoinSuccess \/ IceCreatePublish \/ IceCreateSubscribe \/ IceRemoveSubscribe
    \/ IceSdpCandidate \/ IceSdpEndCandidates

\* ------------------------------------------------------------------------
\* obelisk: the DTMF menu of a call that has joined its conference
\* (signaling.rs handle_media_event, websocket.rs send_audio_mute,
\* send_hand_action)
\* ------------------------------------------------------------------------
\* Websocket::send_audio_mute: the update_media_session message
SendAudioMute(mute) ==
    [namespace |-> "media", action |-> "update_media_session",
     video |-> FALSE, audio |-> ~mute]

\* Websocket::send_hand_action: raise_hand or lower_hand
SendHandAction(raised) ==
    [namespace |-> "control", action |-> IF raised THEN "raise_hand" ELSE "lower_hand"]

\* the messages the DtmfDigit arm of a joined call hands to the websocket
\* and the websocket delivers
MenuSent(s, digit, io) ==
    CASE digit = 1 /\ s.websocket /\ io # "ws_err" -> <<SendAudioMute(~s.muted)>>
      [] digit = 2 /\ s.websocket /\ io # "ws_err" -> <<SendHandAction(~s.hand_raised)>>
      [] OTHER -> <<>>

\* the call when the tenth passcode digit has been handled: both buffers
\* full, the two dial-in announcements played, controller.start answered
DialledIn ==
    [PlayTrack(PlayTrack(SignalingNew, "WelcomeConferenceId"), "WelcomePasscode")
        EXCEPT !.dtmf_id = [i \in 1..IdDigits |-> 5],
               !.dtmf_pw = [i \in 1..PwDigits |-> 5],
               !.shutdown = "empty",
               !.conn = "open",
               !.starts = <<"Ok">>]

MenuInit ==
    /\ menu = SignalingNew
    /\ menuLast = [op |-> "new", digit |-> 0, io |-> "ok", was |-> SignalingNew, sent |-> <<>>]

MenuStep(op, digit, io, r, msgs) ==
    /\ Len(r.log) <= MaxLog
    /\ menu' = r
    /\ menuLast' = [op |-> op, digit |-> digit, io |-> io, was |-> menu, sent |-> msgs]
    /\ MenuFrame

\* the dial-in ends with a successful join
MenuJoin ==
    /\ menu.pc = "idle"
    /\ MenuStep("join", 0, "ok", JoinOk(DialledIn), <<>>)

\* select!: media.wait_for_event() yields a DTMF digit
MenuDigit ==
    /\ menu.pc = "select"
    /\ \E digit \in MenuDigits, io \in IoOutcomes :
          MenuStep("digit", digit, io, HandleDtmfDigit(menu, digit, io),
                   MenuSent(menu, digit, io))

\* push_data: the track player has played the last sample of its track
MenuTrackFinished ==
    /\ menu.pc = "select"
    /\ menu.track # "None"
    /\ MenuStep("track_finished", 0, "ok", StopPlayback(menu), <<>>)

\* select!: welcome_finished_channel_rx.recv()
MenuWelcomeFinished ==
    /\ menu.pc = "select"
    /\ menu.welcome_finished > 0
    /\ \E io \in IoOutcomes :
          MenuStep("welcome_finished", 0, io,
                   BeginPublishAndSubscriptions(
                       [menu EXCEPT !.welcome_finished = @ - 1], io), <<>>)

\* select!: the websocket yields session_ended
MenuSessionEnded ==
    /\ menu.pc = "select"
    /\ menu.websocket
    /\ MenuStep("session_ended", 0, "ok", ReceiveFrame(menu, "SessionEnded", "ok"), <<>>)

\* select!: closed_finished_channel_rx.recv()
MenuClosedFinished ==
    /\ menu.pc = "select"
    /\ menu.closed_finished > 0
    /\ MenuStep("closed_finished", 0, "ok",
                LoopCheck([menu EXCEPT !.closed_finished = @ - 1, !.state = "Quitting"]),
                <<>>)

NextMenu ==
    \/ MenuJoin \/ MenuDigit \/ MenuTrackFinished \/ MenuWelcomeFinished
    \/ MenuSessionEnded \/ MenuClosedFinished

\* ------------------------------------------------------------------------
\* obelisk: register, the REGISTER request and its authentication (sip.rs)
\* ------------------------------------------------------------------------
\* final responses of the registrar: a representative of 200..=299, 401,
\* 407, two of 400..=499 (423 Interval Too Brief, 404), one of the rest
RegistrarResponses == {200, 401, 407, 423, 404, 500}

\* the arm of `match response_code.into_u16()` a response takes
ResponseArm(code, remove_binding) ==
    CASE code \in 200..299 -> "success"
      [] code \in {401, 407} -> "authenticate"
      [] code \in 400..499 /\ ~remove_binding -> "error_response"
      [] OTHER -> "bail"

RegisterInit ==
    /\ regPc = "idle"
    /\ regRemoveBinding = FALSE
    /\ regRequests = 0
    /\ regResponse = 0
    /\ regResult = "none"

\* register(.., remove_binding) is called
RegisterCall ==
    /\ regPc = "idle"
    /\ \E remove_binding \in BOOLEAN : regRemoveBinding' = remove_binding
    /\ regPc' = "send"
    /\ UNCHANGED <<regRequests, regResponse, regResult>>
    /\ RegisterFrame

\* top of the loop: create_register, authorize_request, send_request(..)?
RegisterSend ==
    /\ regPc = "send"
    /\ regRequests < MaxRegisters
    /\ regRequests' = regRequests + 1
    /\ \E accepted \in BOOLEAN :
          IF accepted THEN regPc' = "await" /\ regResult' = regResult
                  ELSE regPc' = "done" /\ regResult' = "Err"
    /\ UNCHANGED <<regRemoveBinding, regResponse>>
    /\ RegisterFrame

\* receive_final()? and the match on the response code; `retry` is what
\* handle_authenticate (Ok) or receive_error_response (true) answers
RegisterReceiveFinal ==
    /\ regPc = "await"
    /\ \E received \in BOOLEAN, code \in RegistrarResponses, retry \in BOOLEAN :
          LET arm == ResponseArm(code, regRemoveBinding)
          IN IF ~received
             THEN regPc' = "done" /\ regResult' = "Err" /\ regResponse' = regResponse
             ELSE /\ regResponse' = code
                  /\ CASE arm = "success" -> regPc' = "done" /\ regResult' = "Ok"
                       [] arm \in {"authenticate", "error_response"} /\ retry ->
                             regPc' = "send" /\ regResult' = regResult
                       [] OTHER -> regPc' = "done" /\ regResult' = "Err"
    /\ UNCHANGED <<regRemoveBinding, regRequests>>
    /\ RegisterFrame

NextRegister == RegisterCall \/ RegisterSend \/ RegisterReceiveFinal

\* ------------------------------------------------------------------------
\* recorder: the layouts of the compositor and Mixer::rerender_layout
\* (layout/grid.rs, layout/speaker.rs, mixer/mod.rs)
\* ------------------------------------------------------------------------
\* Size::SD, Size::HD, Size::FHD
Resolutions == {[width |-> 640, height |-> 480], [width |-> 1280, height |-> 720],
                [width |-> 1920, height |-> 1080]}
LayoutKinds == {"Grid", "Speaker"}

VIEWER_SCALE == 4

\* calculate_stream_view returned None
NoView == [shown |-> FALSE, x |-> 0, y |-> 0, width |-> 0, height |-> 0]
SomeView(x, y, width, height) ==
    [shown |-> TRUE, x |-> x, y |-> y, width |-> width, height |-> height]

\* (value as f64 / resolution.ratio()) as usize
DivByRatio(value, resolution) == (value * resolution.height) \div resolution.width
\* (value as f64 * ratio) as usize
MulByRatio(value, resolution) == (value * resolution.width) \div resolution.height

\* (f64::sqrt(visibles as f64) + 0.9) as usize
SqrtPlus09(visibles) ==
    CHOOSE c \in 1..(visibles + 1) :
        /\ (10 * c - 9) * (10 * c - 9) <= 100 * visibles
        /\ 100 * visibles < (10 * c + 1) * (10 * c + 1)

\* Grid::grid: (columns, rows)
GridOf(visibles) ==
    IF visibles > 1
    THEN LET columns == SqrtPlus09(visibles)
             rows == (visibles + columns - 1) \div columns
         IN IF rows > columns
            THEN [columns |-> columns + 1, rows |-> rows - 1]
            ELSE [columns |-> columns, rows |-> rows]
    ELSE [columns |-> 1, rows |-> 1]

\* Grid::uni_size
GridUniSize(l) ==
    LET width == l.resolution.width \div GridOf(l.visibles).columns
    IN [width |-> width, height |-> DivByRatio(width, l.resolution)]

\* Grid::padding
GridPadding(l) ==
    (l.resolution.height - GridUniSize(l).height * GridOf(l.visibles).rows) \div 2

\* Grid::calculate_stream_view
GridView(l, stream_position) ==
    LET columns == GridOf(l.visibles).columns
        row == stream_position \div columns
        column == stream_position % columns
        size == GridUniSize(l)
    IN SomeView(size.width * column, size.height * row + GridPadding(l),
                size.width, size.height)

\* Speaker::viewers_width, viewers_height
ViewersWidth(l) ==
    CASE l.visibles \in {0, 1} -> 0
      [] l.visibles = 2 -> l.resolution.width \div 2
      [] OTHER -> l.resolution.width \div VIEWER_SCALE
ViewersHeight(l) == DivByRatio(ViewersWidth(l), l.resolution)

\* Speaker::speaker_height, speaker_width
SpeakerHeight(l) == l.resolution.height - ViewersHeight(l)
SpeakerWidth(l) == MulByRatio(SpeakerHeight(l), l.resolution)

\* Speaker::viewers_position with the viewers of the bottom row starting
\* right below the right column
ViewersPositionNoOffset(l, stream_position) ==
    CASE l.visibles \in {0, 1} -> [x |-> 0, y |-> 0]
      [] l.visibles = 2 -> [x |-> l.resolution.width \div 2, y |-> l.resolution.height \div 4]
      [] OTHER ->
            IF stream_position < VIEWER_SCALE
            THEN [x |-> SpeakerWidth(l), y |-> ViewersHeight(l) * stream_position]
            ELSE LET horizontal_index == stream_position - VIEWER_SCALE
                 IN [x |-> SpeakerWidth(l) - ViewersWidth(l) * horizontal_index,
                     y |-> SpeakerHeight(l)]

\* Speaker::viewers_position
ViewersPosition(l, stream_position) ==
    CASE l.visibles \in {0, 1} -> [x |-> 0, y |-> 0]
      [] l.visibles = 2 -> [x |-> l.resolution.width \div 2, y |-> l.resolution.height \div 4]
      [] OTHER ->
            IF stream_position < VIEWER_SCALE
            THEN [x |-> SpeakerWidth(l), y |-> ViewersHeight(l) * stream_position]
            ELSE LET horizontal_index == stream_position - VIEWER_SCALE + 1
                 IN [x |-> SpeakerWidth(l) - ViewersWidth(l) * horizontal_index,
                     y |-> SpeakerHeight(l)]

\* Speaker::viewers_size
ViewersSize(l) ==
    IF l.visibles = 1
    THEN [width |-> l.resolution.width \div 2, height |-> l.resolution.height \div 2]
    ELSE [width |-> ViewersWidth(l), height |-> ViewersHeight(l)]

\* Speaker::speaker_position
SpeakerPosition(l) ==
    IF l.visibles = 2 THEN [x |-> 0, y |-> l.resolution.height \div 4]
                      ELSE [x |-> 0, y |-> 0]

\* Speaker::calculate_stream_view
SpeakerView(l, stream_position) ==
    IF stream_position >= l.visibles
    THEN NoView
    ELSE IF stream_position = 0
         THEN SomeView(SpeakerPosition(l).x, SpeakerPosition(l).y,
                       SpeakerWidth(l), SpeakerHeight(l))
         ELSE LET pos == ViewersPosition(l, stream_position - 1)
              IN SomeView(pos.x, pos.y, ViewersSize(l).width, ViewersSize(l).height)

\* Layout::calculate_stream_view of the layout in use
CalculateStreamView(l, stream_position) ==
    IF l.kind = "Grid" THEN GridView(l, stream_position)
                       ELSE SpeakerView(l, stream_position)

\* a compositor sink pad as requested: alpha = 0
InitialPad == [xpos |-> 0, ypos |-> 0, width |-> 0, height |-> 0, alpha |-> 0]

\* rerender_layout: the properties one pad has after the loop
LayoutPad(l, pad, n) ==
    LET view == CalculateStreamView(l, n)
    IN IF view.shown
       THEN [xpos |-> view.x, ypos |-> view.y, width |-> view.width,
             height |-> view.height, alpha |-> 1]
       ELSE [pad EXCEPT !.alpha = 0]

LayoutInit ==
    /\ layoutPc = "idle"
    /\ layout = [kind |-> "Grid", resolution |-> [width |-> 1920, height |-> 1080],
                 visibles |-> 0]
    /\ pads = <<>>

\* Mixer::new and the streams added since: a layout, an output resolution,
\* visibles.len() visible streams and the invisible ones, each with a pad;
\* rerender_layout hands resolution and visibles to the layout
LayoutSet ==
    /\ layoutPc = "idle"
    /\ \E kind \in LayoutKinds, resolution \in Resolutions,
          visibles \in 0..MaxLayoutVisibles, invisibles \in 0..MaxInvisibles :
          /\ layout' = [kind |-> kind, resolution |-> resolution, visibles |-> visibles]
          /\ pads' = [n \in 1..(visibles + invisibles) |-> InitialPad]
    /\ layoutPc' = "set"
    /\ LayoutFrame

\* rerender_layout: the loop over visibles ++ invisibles
LayoutRerender ==
    /\ layoutPc = "set"
    /\ pads' = [n \in 1..Len(pads) |-> LayoutPad(layout, pads[n], n - 1)]
    /\ layoutPc' = "rendered"
    /\ UNCHANGED layout
    /\ LayoutFrame

NextLayout == LayoutSet \/ LayoutRerender

\* ------------------------------------------------------------------------
\* obelisk: a joined call's subscriptions to the participants of the
\* conference and its mute state: Signaling.muted, the mute property of the
\* publish bin's audio-input, the audio state sent to the controller
\* (signaling.rs begin_publish_and_subscriptions, handle_media_event,
\* handle_websocket_event; media/mod.rs create_publish, create_subscribe,
\* remove_subscribe, on_publish_mute; websocket.rs publish_complete,
\* send_audio_mute)
\* ------------------------------------------------------------------------
\* a participant of Signaling.participants: not in the list, in the list
\* with media.video = None, in the list with media.video = Some
SubParticipantStates == {"absent", "joined", "publishing"}

\* the subscriptions of the call, and its mute state
subscriptions == <<subParticipants, subRequests, subPending, subBins>>
muteState == <<mutedFlag, audioInput, publishPending, mediaMsgs>>

SubInit ==
    /\ subPc = "dialin"
    /\ subState = "Running"
    /\ subParticipants = [u \in RemoteUuids |-> "absent"]
    /\ subRequests = [u \in RemoteUuids |-> 0]
    /\ subPending = [u \in RemoteUuids |-> 0]
    /\ subBins = {}
    /\ mutedFlag = TRUE
    /\ audioInput = "none"
    /\ publishPending = TRUE
    /\ mediaMsgs = <<>>

\* Websocket::subscribe(uuid): one subscribe request on the wire
SendSubscribe(requests, u) == [requests EXCEPT ![u] = @ + 1]

\* join: self.participants = the list of join_success; the WelcomeUsage
\* track starts and nothing is subscribed yet
SubJoin(list) ==
    /\ subState = "Running"
    /\ subPc = "dialin"
    /\ subPc' = "welcome"
    /\ subParticipants' = list
    /\ UNCHANGED <<subState, subRequests, subPending, subBins>>
    /\ UNCHANGED muteState
    /\ SubFrame

\* WebsocketEvent::Joined(participant): subscribe at once when it publishes,
\* then push it to self.participants
SubJoined(u, video) ==
    /\ subState = "Running"
    /\ subPc # "dialin"
    /\ subParticipants[u] = "absent"
    /\ video => subPending[u] < MaxPending
    /\ subParticipants' = [subParticipants EXCEPT ![u] =
                              IF video THEN "publishing" ELSE "joined"]
    /\ IF video
       THEN /\ subRequests' = SendSubscribe(subRequests, u)
            /\ subPending' = SendSubscribe(subPending, u)
       ELSE UNCHANGED <<subRequests, subPending>>
    /\ UNCHANGED <<subPc, subState, subBins>>
    /\ UNCHANGED muteState
    /\ SubFrame

\* MediaPipeline::remove_subscribe: removes the bin if there is one
RemoveSubscribe(bins, u) == bins \ {u}

\* WebsocketEvent::Update(updated) of a known participant: (Some, None)
\* removes the subscribe bin, (None, Some) subscribes, anything else only
\* stores the new state
SubUpdate(u, video) ==
    /\ subState = "Running"
    /\ subPc # "dialin"
    /\ subParticipants[u] # "absent"
    /\ video => subPending[u] < MaxPending
    /\ subParticipants' = [subParticipants EXCEPT ![u] =
                              IF video THEN "publishing" ELSE "joined"]
    /\ IF subParticipants[u] = "publishing" /\ ~video
       THEN /\ subBins' = RemoveSubscribe(subBins, u)
            /\ subRequests' = [subRequests EXCEPT ![u] = 0]
            /\ UNCHANGED subPending
       ELSE IF subParticipants[u] = "joined" /\ video
            THEN /\ subRequests' = SendSubscribe(subRequests, u)
                 /\ subPending' = SendSubscribe(subPending, u)
                 /\ UNCHANGED subBins
            ELSE UNCHANGED <<subRequests, subPending, subBins>>
    /\ UNCHANGED <<subPc, subState>>
    /\ UNCHANGED muteState
    /\ SubFrame

\* WebsocketEvent::Left(assoc) of a known participant
SubLeft(u) ==
    /\ subState = "Running"
    /\ subPc # "dialin"
    /\ subParticipants[u] # "absent"
    /\ subParticipants' = [subParticipants EXCEPT ![u] = "absent"]
    /\ subBins' = IF subParticipants[u] = "publishing"
                  THEN RemoveSubscribe(subBins, u) ELSE subBins
    /\ subRequests' = [subRequests EXCEPT ![u] = 0]
    /\ UNCHANGED <<subPc, subState, subPending>>
    /\ UNCHANGED muteState
    /\ SubFrame

\* begin_publish_and_subscriptions, once the WelcomeUsage track has
\* finished: create_publish, then subscribe to every participant of the
\* list that publishes. The publish bin is parsed from
\* `volume name=audio-input ! ..`; the description sets no mute property,
\* so the element starts with the default of volume, mute = false
SubBeginPublishAndSubscriptions ==
    /\ subState = "Running"
    /\ subPc = "welcome"
    /\ \A u \in RemoteUuids :
          subParticipants[u] = "publishing" => subPending[u] < MaxPending
    /\ subPc' = "published"
    /\ subRequests' = [u \in RemoteUuids |->
                          IF subParticipants[u] = "publishing"
                          THEN subRequests[u] + 1 ELSE subRequests[u]]
    /\ subPending' = [u \in RemoteUuids |->
                         IF subParticipants[u] = "publishing"
                         THEN subPending[u] + 1 ELSE subPending[u]]
    /\ audioInput' = "unmuted"
    /\ UNCHANGED <<subState, subParticipants, subBins>>
    /\ UNCHANGED <<mutedFlag, publishPending, mediaMsgs>>
    /\ SubFrame

\* WebsocketEvent::SubscribeOffer { offer, uuid }, the controller's answer
\* to one subscribe request: create_subscribe adds the bin subscribe:{uuid}
\* to the pipeline; the pipeline refuses a second child of that name, the
\* `?` returns the error and Signaling::run sets Quitting
SubSubscribeOffer(u) ==
    /\ subState = "Running"
    /\ subPending[u] > 0
    /\ subPending' = [subPending EXCEPT ![u] = @ - 1]
    /\ IF u \in subBins
       THEN /\ subState' = "Quitting"
            /\ UNCHANGED subBins
       ELSE /\ subBins' = subBins \cup {u}
            /\ UNCHANGED subState
    /\ UNCHANGED <<subPc, subParticipants, subRequests>>
    /\ UNCHANGED muteState
    /\ SubFrame

\* Websocket::publish_complete: media_session_state { audio: false, video: false }
PublishComplete ==
    [namespace |-> "media", action |-> "publish_complete",
     video |-> FALSE, audio |-> FALSE]

\* MediaPipeline::on_publish_mute: sets the property if the pipeline has an
\* element audio-input, does nothing otherwise
OnPublishMute(audio_input, mute) ==
    IF audio_input = "none"
    THEN audio_input
    ELSE IF mute THEN "muted" ELSE "unmuted"

\* handle_media_event, DtmfDigit(1) of a call that holds a websocket
SubDigitOne ==
    /\ subState = "Running"
    /\ subPc # "dialin"
    /\ Len(mediaMsgs) < MaxMediaMsgs
    /\ mutedFlag' = ~mutedFlag
    /\ audioInput' = OnPublishMute(audioInput, mutedFlag')
    /\ mediaMsgs' = Append(mediaMsgs, SendAudioMute(mutedFlag'))
    /\ UNCHANGED <<subPc, subState, publishPending>>
    /\ UNCHANGED subscriptions
    /\ SubFrame

\* handle_websocket_event, RequestMute: acts only on a call that is not muted
SubRequestMute ==
    /\ subState = "Running"
    /\ subPc # "dialin"
    /\ Len(mediaMsgs) < MaxMediaMsgs
    /\ IF ~mutedFlag
       THEN /\ mutedFlag' = TRUE
            /\ audioInput' = OnPublishMute(audioInput, TRUE)
            /\ mediaMsgs' = Append(mediaMsgs, SendAudioMute(TRUE))
       ELSE UNCHANGED <<mutedFlag, audioInput, mediaMsgs>>
    /\ UNCHANGED <<subPc, subState, publishPending>>
    /\ UNCHANGED subscriptions
    /\ SubFrame

\* handle_websocket_event, Receiving(receiving): the first Receiving(true)
\* is answered with publish_complete
SubReceiving(receiving) ==
    /\ subState = "Running"
    /\ subPc = "published"
    /\ Len(mediaMsgs) < MaxMediaMsgs
    /\ IF publishPending /\ receiving
       THEN /\ publishPending' = FALSE
            /\ mediaMsgs' = Append(mediaMsgs, PublishComplete)
       ELSE UNCHANGED <<publishPending, mediaMsgs>>
    /\ UNCHANGED <<subPc, subState, mutedFlag, audioInput>>
    /\ UNCHANGED subscriptions
    /\ SubFrame

NextSub ==
    \/ \E list \in [RemoteUuids -> SubParticipantStates] : SubJoin(list)
    \/ \E u \in RemoteUuids, video \in BOOLEAN : SubJoined(u, video)
    \/ \E u \in RemoteUuids, video \in BOOLEAN : SubUpdate(u, video)
    \/ \E u \in RemoteUuids : SubLeft(u)
    \/ SubBeginPublishAndSubscriptions
    \/ \E u \in RemoteUuids : SubSubscribeOffer(u)
    \/ SubDigitOne
    \/ SubRequestMute
    \/ \E receiving \in BOOLEAN : SubReceiving(receiving)

Init ==
    /\ PoolInit /\ DtmfInit /\ TalkInit /\ RecorderInit /\ GatewayInit
    /\ CodecInit /\ SdpInit /\ SipInit
    /\ IceInit
    /\ MenuInit
    /\ RegisterInit
    /\ LayoutInit
    /\ SubInit

SpecPool == Init /\ [][NextPool]_vars

SpecDtmf == Init /\ [][NextDtmf]_vars

SpecTalk == Init /\ [][NextTalk]_vars

SpecRecorder == Init /\ [][NextRecorder]_vars

SpecGateway == Init /\ [][NextGateway]_vars

SpecCodec == Init /\ [][NextCodec]_vars

SpecSdp == Init /\ [][NextSdp]_vars

SpecSipBin == Init /\ [][NextSipBin]_vars

SpecIce == Init /\ [][NextIce]_vars

SpecMenu == Init /\ [][NextMenu]_vars

SpecRegister == Init /\ [][NextRegister]_vars

SpecLayout == Init /\ [][NextLayout]_vars

SpecSub == Init /\ [][NextSub]_vars

\* a caller holds its pair from the return of create_rtp_socket_pair until
\* clear_port has run
Holds(c) == poolPc[c] \in {"new", "own", "drop"}

\* C1: for all interleavings of create_rtp_socket_pair and clear_port, two
\* callers that hold a pair at the same time (neither released it) hold
\* different pairs with disjoint (rtp, rtcp) ports.
C1_NoOverlappingPairs ==
    \A c1, c2 \in Callers :
        (c1 # c2 /\ Holds(c1) /\ Holds(c2)) =>
            /\ pair[c1] # pair[c2]
            /\ PairPorts(pair[c1]) \cap PairPorts(pair[c2]) = {}

\* two callers hold pairs at once, one of them with its sockets already
\* closed while the pair is still marked used
C1_Witness ==
    \E c1, c2 \in Callers :
        /\ c1 # c2
        /\ Holds(c1) /\ Holds(c2)
        /\ poolPc[c1] = "drop"
        /\ PairPorts(pair[c1]) \cap bound = {}

\* indices of the packets of dtmfIn whose timestamp is a strict increase over
\* the packet right before them (the first packet counts as an increase)
IncreasingTransitions ==
    {i \in 1..Len(dtmfIn) : i = 1 \/ dtmfIn[i - 1].ts < dtmfIn[i].ts}

\* indices of the well-formed packets whose timestamp is greater than the
\* timestamp of every well-formed packet before them
NewMaxima ==
    {i \in 1..Len(dtmfIn) :
        /\ dtmfIn[i].ok
        /\ \A j \in 1..(i - 1) : dtmfIn[j].ok => dtmfIn[j].ts < dtmfIn[i].ts}

\* C7 as claimed: for sequences of well-formed telephone-event packets the
\* number of dtmf-events equals the number of strictly increasing timestamp
\* transitions between consecutive packets.
C7_Original ==
    (\A i \in 1..Len(dtmfIn) : dtmfIn[i].ok) =>
        dtmfPosted = Cardinality(IncreasingTransitions)

\* C7 amended: the number of dtmf-events equals the number of well-formed
\* packets whose RTP timestamp is strictly greater than that of every
\* well-formed packet before them (the first one included), whatever the
\* marker bits; last_timestamp is the greatest such timestamp.
C7_EventsAreNewMaxima ==
    /\ dtmfPosted = Cardinality(NewMaxima)
    /\ \A i \in 1..Len(dtmfIn) : dtmfIn[i].ok => dtmfIn[i].ts <= last_timestamp
    /\ (last_timestamp = NoTimestamp) = (\A i \in 1..Len(dtmfIn) : ~dtmfIn[i].ok)

\* three well-formed packets, the third above the second but below the first:
\* one event only
C7_Witness ==
    /\ Len(dtmfIn) = 3
    /\ \A i \in 1..3 : dtmfIn[i].ok
    /\ dtmfIn[2].ts < dtmfIn[3].ts
    /\ dtmfIn[3].ts < dtmfIn[1].ts
    /\ dtmfPosted = 1

\* C3: for all sequences of Talk calls, add_stream / remove_stream among
\* them, the keys of the stream registry are exactly the streams holding a
\* request pad on the audio mixer, and the streams holding a request pad on
\* the compositor are exactly the registered streams whose source has video
\* (when the Talk has a compositor): no pad leaks, no entry without pads.
C3_RegistryMatchesPads ==
    /\ talk.audio_pads = DOMAIN talk.streams
    /\ talk.video_pads =
           {id \in DOMAIN talk.streams : talk.video_support /\ talk.streams[id].src_video}
    /\ \A id \in DOMAIN talk.streams : talk.streams[id].video = (id \in talk.video_pads)

\* remove_stream has just run and left a stream with both pads and an
\* audio-only stream registered
C3_Witness ==
    /\ talkLast = "remove_stream"
    /\ \E id \in DOMAIN talk.streams : id \in talk.video_pads
    /\ \E id \in DOMAIN talk.streams : id \notin talk.video_pads
    /\ \E id \in StreamIds : id \notin DOMAIN talk.streams

\* C4 (as claimed): after every sequence of Talk calls the visible list
\* holds at most max_visibles streams.
C4_Original == Len(talk.visibles) <= talk.max_visibles

\* C5 (as claimed): after every sequence of Talk calls every id of the
\* visible list is a key of the stream registry and occurs once.
C5_Original ==
    /\ \A i \in 1..Len(talk.visibles) : talk.visibles[i] \in DOMAIN talk.streams
    /\ \A i, j \in 1..Len(talk.visibles) :
           talk.visibles[i] = talk.visibles[j] => i = j

\* the streams of participant p that are registered in, or shown by, the
\* session's Talk
RecordedStreams(p) ==
    {id \in StreamIds :
        /\ id.id = p
        /\ id \in DOMAIN recTalk.streams \/ Contains(recTalk.visibles, id)}

\* C2 (as claimed): while the session runs, no participant of the roster
\* whose recording consent is false has a stream in the Talk registry or in
\* the visible list, and no Subscribe is sent for such a participant,
\* whatever the order of JoinSuccess, Joined, Update and Left.
C2_Original ==
    recPc = "run" =>
        /\ \A p \in DOMAIN participants :
               ~participants[p].consents => RecordedStreams(p) = {}
        /\ \A msg \in sent : msg.consents

\* C6 (as claimed): a session that has ended, for whatever reason, has
\* attempted the upload, and has either uploaded the MP4 or copied it to
\* DUMP.mp4 and returned the error.
C6_Original ==
    recPc = "finished" =>
        /\ uploaded \/ dumped
        /\ uploaded => sessionResult = "Ok"
        /\ ~uploaded => sessionResult = "Err(upload)"

\* ------------------------------------------------------------------------
\* obelisk: dial-in
\* ------------------------------------------------------------------------
\* the step of call c in which controller.start returns `outcome`
StartReturns(c, outcome) ==
    /\ call[c].pc = "start"
    /\ call'[c].starts = Append(call[c].starts, outcome)

\* C8: when controller.start(id, pw) reports InvalidCredentials the handler
\* plays InputInvalid, clears dtmf_id and dtmf_pw and leaves the call in
\* state Running at its select! loop, not terminated; and when after a
\* rejected attempt dtmf_pw is full again, a new start attempt is under way.
C8_InvalidCredentialsRetry ==
    /\ [][\A c \in Calls :
            StartReturns(c, "InvalidCredentials")
            => /\ call'[c].log = Append(call[c].log, "InputInvalid")
               /\ call'[c].track = "InputInvalid"
               /\ call'[c].dtmf_id = <<>>
               /\ call'[c].dtmf_pw = <<>>
               /\ call'[c].state = "Running"
               /\ call'[c].pc = "select"
               /\ ~call'[c].terminated]_vars
    /\ [](\A c \in Calls :
            ( /\ call[c].starts # <<>>
              /\ call[c].starts[Len(call[c].starts)] = "InvalidCredentials"
              /\ Len(call[c].dtmf_pw) = PwDigits )
            => /\ call[c].pc = "start"
               /\ Len(call[c].dtmf_id) = IdDigits)

\* a start was rejected with InvalidCredentials, the caller has entered
\* 10 + 10 digits again and the second start is under way
C8_Witness ==
    \E c \in Calls :
        /\ call[c].starts = <<"InvalidCredentials">>
        /\ call[c].pc = "start"
        /\ call[c].state = "Running"
        /\ Len(call[c].dtmf_id) = IdDigits
        /\ Len(call[c].dtmf_pw) = PwDigits
        /\ call[c].log = <<"WelcomeConferenceId", "WelcomePasscode", "InputInvalid",
                           "WelcomePasscode">>

\* entry k of the log is preceded by a, b, c in this order
PrecededBy(log, k, a, b, c) ==
    \E i, j, m \in 1..Len(log) :
        /\ i < j /\ j < m /\ m < k
        /\ log[i] = a /\ log[j] = b /\ log[m] = c

\* C9: dtmf_id and dtmf_pw hold at most 10 digits and dtmf_pw fills only
\* when dtmf_id is full; WelcomePasscode is played exactly in the step in
\* which dtmf_id reaches 10 digits; controller.start is attempted exactly in
\* the step in which dtmf_pw reaches 10 digits; WelcomeConferenceId is the
\* first prompt; WelcomeUsage is played only after a start returned Ok, with
\* WelcomeConferenceId and WelcomePasscode played before it in this order;
\* and every publish offer is sent after WelcomeConferenceId, WelcomePasscode
\* and WelcomeUsage were played in this order.
C9_DialInOrder ==
    /\ [](\A c \in Calls :
            LET s == call[c] IN
            /\ Len(s.dtmf_id) <= IdDigits
            /\ Len(s.dtmf_pw) <= PwDigits
            /\ Len(s.dtmf_id) < IdDigits => s.dtmf_pw = <<>>
            /\ s.pc \in JoinPcs => Len(s.dtmf_id) = IdDigits /\ Len(s.dtmf_pw) = PwDigits
            /\ s.log # <<>> => s.log[1] = "WelcomeConferenceId"
            /\ \A k \in 1..Len(s.log) :
                  /\ s.log[k] = "WelcomeUsage"
                     => /\ \E n \in 1..Len(s.starts) : s.starts[n] = "Ok"
                        /\ \E i, j \in 1..Len(s.log) :
                              /\ i < j /\ j < k
                              /\ s.log[i] = "WelcomeConferenceId"
                              /\ s.log[j] = "WelcomePasscode"
                  /\ s.log[k] = "publish"
                     => PrecededBy(s.log, k, "WelcomeConferenceId", "WelcomePasscode",
                                   "WelcomeUsage"))
    /\ [][\A c \in Calls :
            /\ (Len(call[c].dtmf_id) < IdDigits /\ Len(call'[c].dtmf_id) = IdDigits)
               <=> (call[c].pc = "select" /\ call'[c].log = Append(call[c].log, "WelcomePasscode"))
            /\ (Len(call[c].dtmf_pw) < PwDigits /\ Len(call'[c].dtmf_pw) = PwDigits)
               <=> (call[c].pc = "select" /\ call'[c].pc = "start")]_vars

\* a call whose first start succeeded: the three prompts were played in
\* order and the publish offer has been sent after them
C9_Witness ==
    \E c \in Calls :
        /\ call[c].starts = <<"Ok">>
        /\ call[c].log = <<"WelcomeConferenceId", "WelcomePasscode", "WelcomeUsage", "publish">>
        /\ call[c].websocket

\* ------------------------------------------------------------------------
\* obelisk: graceful shutdown
\* ------------------------------------------------------------------------
\* the call has done what the shutdown asks of it: it has left Running, its
\* SIP session is ended (by its own terminate or by the peer), and its
\* websocket connection is not left open
ShutDown(s) ==
    /\ s.state # "Running"
    /\ s.terminated \/ s.state = "Terminated"
    /\ s.conn # "open"

\* C10: when the main task returns from the shutdown sequence, every call
\* that was active when the broadcast was sent, and whose task has not
\* failed with an error, has left state Running, has its SIP session ended
\* and its websocket closed; and the main task has slept at most 10 s.
C10_Original ==
    /\ graceTicks <= ShutdownGrace
    /\ mainPc = "returned"
       => \A c \in activeAtShutdown : call[c].result # "Err" => ShutDown(call[c])

\* ------------------------------------------------------------------------
\* obelisk: RTP watchdog
\* ------------------------------------------------------------------------
\* C11: once a watchdog has fired and MediaEvent::Error is queued, the call
\* task does not wait for anyone before it handles the event (it always has
\* a step ready); and a call that has handled the event and whose run
\* returned Ok was in state Quitting, has terminated its SIP session and
\* has not left its websocket open.
C11_Original ==
    \A c \in Calls :
        /\ (call[c].watchdog = "fired" /\ call[c].pc # "exited" /\ mainPc # "returned")
           => Ready(call[c])
        /\ (call[c].watchdog = "handled" /\ call[c].result = "Ok")
           => /\ call[c].state = "Quitting"
              /\ call[c].terminated
              /\ call[c].conn # "open"

\* ------------------------------------------------------------------------
\* obelisk: SDP negotiation
\* ------------------------------------------------------------------------
\* the offer lists the codec of the entry: by its static payload number in
\* m=, or by an rtpmap with its encoding name
Lists(offer, entry) ==
    \/ \E i \in 1..Len(offer.fmts) : offer.fmts[i] = entry.static_payload
    \/ \E i \in 1..Len(offer.rtpmaps) :
          ToAsciiLowercase(offer.rtpmaps[i].encoding) = ToAsciiLowercase(entry.name)

\* C15: choose_codec returns the codec of the first entry of CODEC_LIST
\* (G722, PCMA, PCMU) that the offer lists, and returns None, which rejects
\* the offer, only if the offer lists none of them.
C15_Original ==
    codecPc = "done"
    => LET L == {k \in 1..Len(CODEC_LIST) : Lists(mediaOffer, CODEC_LIST[k])}
       IN IF L = {}
          THEN codecInfo = NoCodec
          ELSE codecInfo.codec = CODEC_LIST[Least(L)].name

\* the step is a reINVITE whose offer respond accepted
AcceptedUpdate ==
    /\ sipBin.created
    /\ sipBin'.version = sipBin.version + 1
    /\ sipLast'.ok

\* C12: a reINVITE whose offer has a remote_version less than or equal to
\* the one of the current session info leaves the destination of the RTP
\* and RTCP udpsinks and the drop property of the send valve as they were.
C12_StaleOfferIgnored ==
    [][(/\ AcceptedUpdate
        /\ sipBin'.current_session_info.remote_version
              <= sipBin.current_session_info.remote_version)
       => /\ sipBin'.rtp_udpsink = sipBin.rtp_udpsink
          /\ sipBin'.rtcp_udpsink = sipBin.rtcp_udpsink
          /\ sipBin'.valve_drop = sipBin.valve_drop]_vars

\* a reINVITE that did not advance the version has been handled, and both
\* its address and its hold state differ from what the SipBin sends with
C12_Witness ==
    /\ sipLast.op = "update" /\ sipLast.ok /\ ~sipLast.advanced
    /\ sipBin.current_session_info.rtp_addr.ip \in {"192.0.2.1", "192.0.2.2"}
    /\ sipBin.rtp_udpsink.ip \in {"192.0.2.1", "192.0.2.2"}
    /\ sipBin.rtp_udpsink # sipBin.current_session_info.rtp_addr
    /\ sipBin.valve_drop = SendData(sipBin.current_session_info)

\* C13: after a reINVITE whose remote_version advanced, the udpsinks send
\* to the offered RTP and RTCP address, or to 127.0.0.1:9 if the offered
\* address is 0.0.0.0, and the send valve drops iff the direction of the
\* answer has no send component.
C13_Original ==
    (sipLast.op = "update" /\ sipLast.ok /\ sipLast.advanced)
    => LET info == sipBin.current_session_info
       IN /\ sipBin.rtp_udpsink = IF info.rtp_addr.ip = "0.0.0.0"
                                      THEN SocketAddr("127.0.0.1", 9)
                                      ELSE info.rtp_addr
          /\ sipBin.rtcp_udpsink = IF info.rtp_addr.ip = "0.0.0.0"
                                       THEN SocketAddr("127.0.0.1", 9)
                                       ELSE info.rtcp_addr
          /\ sipBin.valve_drop = (info.direction \in {"RecvOnly", "Inactive"})

\* sendonly and recvonly flipped, sendrecv and inactive kept
Flipped(direction) ==
    CASE direction = "SendOnly" -> "RecvOnly"
      [] direction = "RecvOnly" -> "SendOnly"
      [] OTHER -> direction

\* C14 as stated: for an accepted offer, if its connection address is
\* 0.0.0.0 the direction of the answer is recvonly or inactive, otherwise
\* it is the flipped direction of the offer.
C14_Original ==
    (sdpPc = "done" /\ sdpResult.ok)
    => IF ConnectionOf(sdpOffer) = "0.0.0.0"
       THEN sdpResult.direction \in {"RecvOnly", "Inactive"}
       ELSE sdpResult.direction = Flipped(sdpOffer.direction)

\* C14: for an accepted offer, if its connection address is unspecified
\* (0.0.0.0 or ::) the direction of the answer is recvonly or inactive:
\* sendrecv and sendonly give recvonly, recvonly and inactive give
\* inactive; otherwise it is the flipped direction of the offer.
C14_UnspecifiedExcludesSend ==
    (sdpPc = "done" /\ sdpResult.ok)
    => IF ConnectionOf(sdpOffer) \in {"0.0.0.0", "::"}
       THEN sdpResult.direction =
               IF sdpOffer.direction \in {"SendRecv", "SendOnly"} THEN "RecvOnly"
                                                                  ELSE "Inactive"
       ELSE sdpResult.direction = Flipped(sdpOffer.direction)

\* an accepted sendrecv offer with the session-level address :: was
\* answered recvonly
C14_Witness ==
    /\ sdpPc = "done"
    /\ sdpResult.ok
    /\ sdpOffer.media_connection = NoAddr
    /\ sdpOffer.session_connection = "::"
    /\ sdpOffer.direction = "SendRecv"
    /\ sdpResult.direction = "RecvOnly"

\* ------------------------------------------------------------------------
\* claims about the order of the visible list
\* ------------------------------------------------------------------------
\* position (counted from 1) of the first occurrence of x in s
IndexOf(s, x) == CHOOSE i \in 1..Len(s) : s[i] = x /\ \A j \in 1..(i - 1) : s[j] # x

\* a step that is a call of set_speaker(p) returning Ok
SpeakerSet(p) == SetSpeaker(p) /\ TalkSetSpeaker(talk, p).ok

\* C16: set_speaker(P) puts a registered, visible (P, ScreenCapture) at
\* index 0 of the visible list; it puts (P, Camera), when registered with
\* video, at index 0 if the visible list holds no screen capture and at
\* index 1 otherwise; and with P1's camera (visible) and P2's camera and
\* screen registered with video, set_speaker(P2) leaves the visible list
\* [(P2, Screen), (P2, Camera), (P1, Camera)] cut to max_visibles entries
C16_Original ==
    [][\A p \in Participants :
        SpeakerSet(p) =>
            LET screen == StreamId(p, "ScreenCapture")
                camera == StreamId(p, "Camera")
                other == StreamId(3 - p, "Camera")
                want == <<screen, camera, other>>
            IN /\ (/\ screen \in DOMAIN talk.streams
                   /\ talk.streams[screen].status.has_video
                   /\ Contains(talk.visibles, screen))
                  => (Len(talk'.visibles) > 0 /\ talk'.visibles[1] = screen)
               /\ (/\ camera \in DOMAIN talk.streams
                   /\ talk.streams[camera].status.has_video)
                  => /\ Contains(talk'.visibles, camera)
                     /\ IndexOf(talk'.visibles, camera) =
                            IF HasScreenCapture(talk') THEN 2 ELSE 1
               /\ (/\ DOMAIN talk.streams = {screen, camera, other}
                   /\ \A id \in DOMAIN talk.streams : talk.streams[id].status.has_video
                   /\ Contains(talk.visibles, other)
                   /\ Len(talk.visibles) <= talk.max_visibles)
                  => talk'.visibles =
                         SubSeq(want, 1, IF talk.max_visibles < 3 THEN talk.max_visibles ELSE 3)]_vars

\* C17: whenever the ScreenCapture and the Camera of one participant are both
\* in the visible list, the ScreenCapture stands ahead of the Camera
C17_Original ==
    \A p \in Participants :
        (/\ Contains(talk.visibles, StreamId(p, "ScreenCapture"))
         /\ Contains(talk.visibles, StreamId(p, "Camera")))
        => IndexOf(talk.visibles, StreamId(p, "ScreenCapture"))
               < IndexOf(talk.visibles, StreamId(p, "Camera"))

\* the streams in a visible list
Range(s) == {s[i] : i \in 1..Len(s)}

\* a step that is a call of show_stream(id) made at the cap and returning Ok
ShownAtCap(id) ==
    /\ Len(talk.visibles) >= talk.max_visibles
    /\ talkLast' = IF id.media_type = "ScreenCapture" THEN "show_screen_at_cap" ELSE "call"
    /\ LET r == TalkShowStream(talk, id) IN r.ok /\ talk' = r.t

\* C18 (as claimed): a show_stream made at the cap leaves the visible list
\* unchanged for a Camera; for a ScreenCapture the stream that was last in
\* the visible list is no longer visible and the ScreenCapture is
C18_Original ==
    [][\A id \in StreamIds :
        ShownAtCap(id) =>
            LET last == talk.visibles[Len(talk.visibles)]
            IN IF id.media_type = "Camera"
               THEN talk'.visibles = talk.visibles
               ELSE /\ Contains(talk'.visibles, id)
                    /\ ~Contains(talk'.visibles, last)]_vars

\* C18 (amended): a show_stream made at the cap leaves the visible list
\* unchanged for a Camera; for a ScreenCapture the visible list afterwards
\* holds the streams it held before without the last one, and the
\* ScreenCapture, which stays visible when it was the last one itself
C18_ScreenReplacesLast ==
    [][\A id \in StreamIds :
        ShownAtCap(id) =>
            LET last == talk.visibles[Len(talk.visibles)]
            IN IF id.media_type = "Camera"
               THEN talk'.visibles = talk.visibles
               ELSE Range(talk'.visibles) = (Range(talk.visibles) \ {last}) \cup {id}]_vars

\* show_stream of P2's screen capture has just run at the cap: the screen
\* capture stands first and one of two visible cameras is gone
C18_Witness ==
    /\ talkLast = "show_screen_at_cap"
    /\ talk.visibles = <<StreamId(2, "ScreenCapture"), StreamId(1, "Camera")>>
    /\ {StreamId(1, "Camera"), StreamId(2, "Camera"), StreamId(2, "ScreenCapture")}
           \subseteq DOMAIN talk.streams
    /\ talk.streams[StreamId(2, "Camera")].status.has_video

\* a step that is a call of remove_stream(id) returning Ok
Removed(id) ==
    /\ talkLast' \in {"remove_stream", "remove_first_screen"}
    /\ LET r == TalkRemoveStream(talk, id) IN r.ok /\ talk' = r.t

\* C19: remove_stream(id) releases the stream's request pads on both mixers
\* and takes the stream out of the registry and of the visible list; when
\* the stream was the first visible screen capture and another screen
\* capture is visible, that one stands at position 0 afterwards
C19_RemoveReleasesAndPromotes ==
    [][\A id \in StreamIds :
        Removed(id) =>
            /\ id \notin DOMAIN talk'.streams
            /\ id \notin talk'.audio_pads
            /\ id \notin talk'.video_pads
            /\ id \notin talk'.names
            /\ ~Contains(talk'.visibles, id)
            /\ Range(talk'.visibles) = Range(talk.visibles) \ {id}
            /\ LET rest == [talk EXCEPT !.visibles = Retain(@, id)]
               IN (/\ HasScreenCapture(talk)
                   /\ GetFirstScreenCapture(talk) = id
                   /\ HasScreenCapture(rest))
                  => talk'.visibles[1] = GetFirstScreenCapture(rest)]_vars

\* remove_stream of P1's screen capture, the first visible screen capture,
\* has just run: it is gone from the registry and P2's screen capture stands
\* first, ahead of P1's camera
C19_Witness ==
    /\ talkLast = "remove_first_screen"
    /\ StreamId(1, "ScreenCapture") \notin DOMAIN talk.streams
    /\ {StreamId(2, "ScreenCapture"), StreamId(1, "Camera")} \subseteq DOMAIN talk.streams
    /\ talk.visibles = <<StreamId(2, "ScreenCapture"), StreamId(1, "Camera")>>

\* ------------------------------------------------------------------------
\* claims about the subscriptions of the recording session
\* ------------------------------------------------------------------------
\* a step that handles Joined or Update for a participant of the roster
\* without an error
JoinedOrUpdated(id, state) ==
    /\ recPc' = "run"
    /\ \/ RecvJoined(id, state)
       \/ id \in DOMAIN participants /\ RecvUpdate(id, state)

\* C20: after the recorder has handled Joined or Update for P, the stream
\* (P, k) is registered iff P consents and publishes k, for each media type
\* k; and an Update that turns P's consent from false to true sends a
\* Subscribe for each stream P publishes
C20_Original ==
    [][\A id \in Participants, state \in ParticipantStates :
        JoinedOrUpdated(id, state) =>
            /\ \A k \in MediaTypes :
                   (StreamId(id, k) \in DOMAIN recTalk'.streams)
                       <=> Publishes(state, k).published
            /\ (/\ id \in DOMAIN participants
                /\ ~participants[id].consents
                /\ state.consents
                /\ RecvUpdate(id, state))
               => \A k \in MediaTypes :
                      state.publishing[k].published
                          => SubscribeMsg(StreamId(id, k), participants') \in sent']_vars

\* a step that handles Left for participant id
LeftHandled(id) ==
    /\ recPc = "run"
    /\ RecvLeft(id)

\* C21: after the recorder has handled Left for P no stream of P is
\* registered; if the roster has become empty the recorder is done, run
\* returns Ok and the session goes on to drop its Talk and to upload, and
\* while the roster is not empty the session keeps running
C21_LeftRemovesAndQuits ==
    [][/\ \A id \in Participants :
              LeftHandled(id) =>
                  /\ \A k \in MediaTypes : StreamId(id, k) \notin DOMAIN recTalk'.streams
                  /\ id \notin DOMAIN participants'
                  /\ IF DOMAIN participants' = {}
                     THEN done' /\ runResult' = "Ok" /\ recPc' = "drop_talk"
                     ELSE ~done' /\ recPc' = "run"
       /\ recPc = "drop_talk" => recPc' = "upload"
       /\ recPc = "upload" => recPc' \in {"finished", "copy"}]_vars

\* the last participant has left, and the session has gone on to upload the
\* recording
C21_Witness ==
    /\ endReason = "roster_empty"
    /\ participants = <<>>
    /\ recPc = "finished"
    /\ uploaded

\* ------------------------------------------------------------------------
\* claims about the frames received on the signaling connection
\* ------------------------------------------------------------------------
\* a step in which the call task receives `frame` at its select! loop
FrameReceived(c, frame) ==
    /\ call[c].pc = "select"
    /\ call[c].websocket
    /\ \E io \in IoOutcomes : call' = [call EXCEPT ![c] = ReceiveFrame(call[c], frame, io)]

\* C22 (as claimed): a frame that is a protocol error (it does not parse, it
\* is a control message of the join phase, its SDP is malformed) is skipped:
\* the call stays Running at its select! loop and its websocket stays open
C22_Original ==
    [][\A c \in Calls, frame \in ProtocolErrorFrames :
        FrameReceived(c, frame) =>
            /\ call'[c].state = "Running"
            /\ call'[c].pc = "select"
            /\ call'[c].websocket
            /\ call'[c].conn = "open"]_vars

\* the peer connection that belongs to the source of a media message: the
\* publish bin for the gateway's own id, else the subscribe bin of the source
MatchingBin(source) ==
    IF source = selfId
    THEN [name |-> "publish", uuid |-> NoUuid]
    ELSE [name |-> "subscribe", uuid |-> source]

\* C23 (as claimed): every sdp_candidate and every sdp_end_of_candidates is
\* handed to the peer connection that matches its source, whenever that
\* connection exists
C23_Original ==
    (/\ iceLast.op \in {"sdp_candidate", "sdp_end_of_candidates"}
     /\ MatchingBin(iceLast.source) \in pipelineBins)
        => iceLast.bin = MatchingBin(iceLast.source)

\* a step in which the call turns Quitting in one of the two responder arms
\* of its select! loop (welcome_finished, closed_finished)
QuitsInResponderArm(c) ==
    /\ call[c].state = "Running"
    /\ call'[c].state = "Quitting"
    /\ \/ call'[c].welcome_finished < call[c].welcome_finished
       \/ call'[c].closed_finished < call[c].closed_finished

\* C24 (as claimed): after session_ended the call turns Quitting when the
\* Closed track has finished, not before; stated as its consequence that
\* no responder arm of the loop makes the call Quitting while the Closed
\* track is still playing
C24_Original ==
    [][\A c \in Calls :
        QuitsInResponderArm(c) => call[c].track # "ConferenceClosed"]_vars

\* ------------------------------------------------------------------------
\* claims about the DTMF menu of a joined call
\* ------------------------------------------------------------------------
\* the digit the joined call has just handled, if it has just handled one
MenuHandled(digit) == menuLast.op = "digit" /\ menuLast.digit = digit

\* C25 (as claimed): after a successful join a DTMF `#` clears dtmf_id and
\* dtmf_pw
C25_Original ==
    MenuHandled(11) => menu.dtmf_id = <<>> /\ menu.dtmf_pw = <<>>

\* the track the last play_track of the call asked for
LastPlayed(s) == s.log[Len(s.log)]

\* C26 (as claimed): after a successful join `1` toggles the mute state,
\* plays Muted or Unmuted and sends update_media_session with audio = not
\* muted, `2` toggles the hand-raise state and sends raise_hand or
\* lower_hand, `0` plays silence, and none of them changes the dial-in
\* buffers or the call state
C26_Original ==
    LET was == menuLast.was
    IN /\ MenuHandled(1) =>
              /\ menu.muted = ~was.muted
              /\ LastPlayed(menu) = IF menu.muted THEN "Muted" ELSE "Unmuted"
              /\ menuLast.sent = <<SendAudioMute(menu.muted)>>
       /\ MenuHandled(2) =>
              /\ menu.hand_raised = ~was.hand_raised
              /\ menuLast.sent = <<SendHandAction(menu.hand_raised)>>
       /\ MenuHandled(0) => LastPlayed(menu) = "Silence" /\ menu.track = "None"
       /\ (MenuHandled(0) \/ MenuHandled(1) \/ MenuHandled(2)) =>
              /\ menu.dtmf_id = was.dtmf_id
              /\ menu.dtmf_pw = was.dtmf_pw
              /\ menu.state = was.state

\* C26 (amended): while the joined call holds its websocket, `1` toggles the
\* mute state, plays Muted or Unmuted and sends update_media_session with
\* audio = not muted, and `2` toggles the hand-raise state, plays HandRaised
\* or HandLowered and sends raise_hand or lower_hand; when the send fails
\* nothing is delivered and the call turns Quitting; once the websocket is
\* closed `1` and `2` change nothing; `0` plays silence; none of the three
\* changes the dial-in buffers, and the call stays Running but for the
\* failed send
C26_MenuKeys ==
    LET was == menuLast.was
        sendFailed == menuLast.io = "ws_err"
    IN /\ MenuHandled(1) =>
              IF was.websocket
              THEN /\ menu.muted = ~was.muted
                   /\ menu.hand_raised = was.hand_raised
                   /\ LastPlayed(menu) = IF menu.muted THEN "Muted" ELSE "Unmuted"
                   /\ menu.track = LastPlayed(menu)
                   /\ menuLast.sent = IF sendFailed THEN <<>>
                                                    ELSE <<SendAudioMute(menu.muted)>>
                   /\ menuLast.sent # <<>> => menuLast.sent[1].audio = ~menu.muted
                   /\ menu.state = IF sendFailed THEN "Quitting" ELSE "Running"
              ELSE menu = was /\ menuLast.sent = <<>>
       /\ MenuHandled(2) =>
              IF was.websocket
              THEN /\ menu.hand_raised = ~was.hand_raised
                   /\ menu.muted = was.muted
                   /\ LastPlayed(menu) = IF menu.hand_raised THEN "HandRaised"
                                                             ELSE "HandLowered"
                   /\ menu.track = LastPlayed(menu)
                   /\ menuLast.sent = IF sendFailed THEN <<>>
                                                    ELSE <<SendHandAction(menu.hand_raised)>>
                   /\ menuLast.sent # <<>> =>
                          menuLast.sent[1].action = IF menu.hand_raised THEN "raise_hand"
                                                                        ELSE "lower_hand"
                   /\ menu.state = IF sendFailed THEN "Quitting" ELSE "Running"
              ELSE menu = was /\ menuLast.sent = <<>>
       /\ MenuHandled(0) =>
              /\ LastPlayed(menu) = "Silence"
              /\ menu.track = "None"
              /\ menu.muted = was.muted /\ menu.hand_raised = was.hand_raised
              /\ menuLast.sent = <<>>
              /\ menu.state = "Running"
       /\ (MenuHandled(0) \/ MenuHandled(1) \/ MenuHandled(2)) =>
              /\ menu.dtmf_id = was.dtmf_id
              /\ menu.dtmf_pw = was.dtmf_pw

\* a joined caller who was muted has pressed `1`: unmuted, the Unmuted track
\* playing, update_media_session with audio = true delivered
C26_Witness ==
    /\ MenuHandled(1)
    /\ menuLast.was.websocket /\ menuLast.was.muted
    /\ ~menu.muted
    /\ menu.track = "Unmuted"
    /\ menuLast.sent = <<SendAudioMute(FALSE)>>
    /\ menu.state = "Running"

\* C27 (as claimed): one call of register sends at most 10 REGISTER
\* requests, whatever responses the registrar returns
C27_Original == regRequests <= 10

\* ------------------------------------------------------------------------
\* claims about the release of a port pair
\* ------------------------------------------------------------------------
\* a step in which the SipBin of caller c is dropped: clear_port has run
\* for the rtp port of its pair
Released(c) == poolPc[c] = "drop" /\ poolPc'[c] = "idle"

\* C28: after clear_port(port) for the rtp port of an acquired pair, the
\* index of that pair is no longer in used_pairs and is among the pairs the
\* next create_rtp_socket_pair draws from, whatever the other callers have
\* acquired or released
C28_ReleasedPairIsFree ==
    [][\A c \in Callers :
        Released(c) =>
            /\ pair[c] \in used_pairs
            /\ pair[c] \notin used_pairs'
            /\ used_pairs' = used_pairs \ {pair[c]}
            /\ pair[c] \in AvailablePairs(used_pairs', {})]_vars

\* a caller owns a pair that an earlier clear_port had released
C28_Witness ==
    \E c \in Callers : poolPc[c] = "own" /\ pair[c] \in released

\* ------------------------------------------------------------------------
\* claims about the layouts of the compositor
\* ------------------------------------------------------------------------
\* C29 (as claimed): with the Grid and with the Speaker layout, a stream
\* whose index in visibles ++ invisibles is at or past the number of
\* visibles gets no view, and rerender_layout leaves its pad at alpha 0
C29_Original ==
    layoutPc = "rendered" =>
        \A n \in 1..Len(pads) :
            (n - 1) >= layout.visibles =>
                /\ ~CalculateStreamView(layout, n - 1).shown
                /\ pads[n].alpha = 0

\* the rectangles of two pads share a pixel
Overlap(a, b) ==
    /\ a.xpos < b.xpos + b.width /\ b.xpos < a.xpos + a.width
    /\ a.ypos < b.ypos + b.height /\ b.ypos < a.ypos + a.height

\* the rectangle of a pad lies within the canvas
WithinCanvas(a, resolution) ==
    /\ a.xpos >= 0 /\ a.ypos >= 0
    /\ a.xpos + a.width <= resolution.width
    /\ a.ypos + a.height <= resolution.height

\* the rectangles of the visible streams are pairwise disjoint and lie
\* within the canvas
TilesDisjointWithinCanvas ==
    /\ \A n \in 1..layout.visibles : WithinCanvas(pads[n], layout.resolution)
    /\ \A i, j \in 1..layout.visibles : i < j => ~Overlap(pads[i], pads[j])

\* C30 (as claimed): for both layouts and every number of visibles a user
\* of the Mixer may allow, the rectangles of the indices 0 .. visibles-1 are
\* pairwise non-overlapping and lie within the canvas
C30_Original ==
    layoutPc = "rendered" => TilesDisjointWithinCanvas

\* C30 (amended): with the Grid layout for every number of visibles, and
\* with the Speaker layout for up to 8 visibles (MAX_VISIBLES of the
\* recorder), the rectangles of the indices 0 .. visibles-1 are pairwise
\* non-overlapping and lie within the canvas
C30_TilesDisjointWithinCanvas ==
    (/\ layoutPc = "rendered"
     /\ layout.kind = "Speaker" => layout.visibles <= MAX_VISIBLES)
        => TilesDisjointWithinCanvas

\* the Speaker layout of the recorder with a full visible list: four
\* viewers in the right column, three in the bottom row
C30_Witness ==
    /\ layoutPc = "rendered"
    /\ layout.kind = "Speaker"
    /\ layout.visibles = MAX_VISIBLES
    /\ layout.resolution = [width |-> 1920, height |-> 1080]
    /\ pads[5].xpos = pads[2].xpos /\ pads[5].ypos = 3 * pads[5].height
    /\ pads[8].xpos = 0 /\ pads[8].ypos = pads[1].height
    /\ \A n \in 1..MAX_VISIBLES : pads[n].alpha = 1

\* ------------------------------------------------------------------------
\* C31: add; show; hide; remove; add against a single add
\* ------------------------------------------------------------------------
\* the Talk after add_stream; show_stream; hide_stream; remove_stream;
\* add_stream of one id with one set of arguments, each call made on the
\* state the call before left behind
AddShowHideRemoveAdd(t, id, src_video, initial) ==
    LET a == TalkAddStream(t, id, src_video, initial).t
        b == TalkShowStream(a, id).t
        c == TalkHideStream(b, id).t
        d == TalkRemoveStream(c, id).t
    IN TalkAddStream(d, id, src_video, initial).t
\* registry, display names, visible list and mixer pads
Observable(t) == <<t.streams, t.names, t.visibles, t.audio_pads, t.video_pads>>
\* the show_stream of the sequence replaces no other stream
ShowEvictsNone(t, id) ==
    Len(t.visibles) < t.max_visibles \/ id.media_type = "Camera"
Unknown(t, id) == id \notin DOMAIN t.streams /\ ~Contains(t.visibles, id)
\* the remove_stream of the sequence has no screen capture to move to the
\* front: none is visible, or the first visible stream is one
PromotesNone(t) ==
    ~HasScreenCapture(t) \/ t.visibles[1].media_type = "ScreenCapture"

\* C31 as stated: for every id that is not registered, the sequence add;
\* show; hide; remove; add leaves registry, visible list and mixer pads as a
\* single add does
C31_Original ==
    \A id \in StreamIds, src_video \in BOOLEAN, initial \in StatusInputs :
        Unknown(talk, id) =>
            Observable(AddShowHideRemoveAdd(talk, id, src_video, initial))
                = Observable(TalkAddStream(talk, id, src_video, initial).t)

\* registry, display names and mixer pads
Registered(t) == <<t.streams, t.names, t.audio_pads, t.video_pads>>

\* C31: for every id that is neither registered nor visible, the sequence
\* add; show; hide; remove; add leaves registry, names and mixer pads as a
\* single add does; it leaves the visible list the same too when its
\* show_stream replaces no other stream (fewer than max_visibles streams are
\* visible, or the id is a Camera) and its remove_stream moves no screen
\* capture to the front
C31_RoundTripWithoutEviction ==
    \A id \in StreamIds, src_video \in BOOLEAN, initial \in StatusInputs :
        Unknown(talk, id) =>
            LET seq == AddShowHideRemoveAdd(talk, id, src_video, initial)
                one == TalkAddStream(talk, id, src_video, initial).t
            IN /\ Registered(seq) = Registered(one)
               /\ (ShowEvictsNone(talk, id) /\ PromotesNone(talk)) =>
                      seq.visibles = one.visibles

\* another stream is visible, and the show_stream of the sequence makes the
\* new stream visible next to it
C31_Witness ==
    \E id \in StreamIds :
        /\ Unknown(talk, id) /\ ShowEvictsNone(talk, id) /\ PromotesNone(talk)
        /\ Len(talk.visibles) > 0
        /\ LET a == TalkAddStream(talk, id, TRUE, StatusDefault)
               b == TalkShowStream(a.t, id)
           IN /\ a.ok /\ b.ok
              /\ Contains(b.t.visibles, id)
              /\ Len(b.t.visibles) = Len(talk.visibles) + 1

\* ------------------------------------------------------------------------
\* claims about the pairs SipBin::new acquires
\* ------------------------------------------------------------------------
\* the pairs of the callers that are past create_rtp_socket_pair and whose
\* SipBin has not been dropped
HeldPairs == {pair[c] : c \in {x \in Callers : Holds(x)}}

\* C32 (as claimed): the pairs marked used in the pool are the pairs held
\* for a SipBin; a SipBin::new that returns an error after it acquired a
\* pair leaves the pair free again
C32_Original == used_pairs = HeldPairs

\* ------------------------------------------------------------------------
\* claims about the subscriptions of a call
\* ------------------------------------------------------------------------
\* C33 (as claimed): for each remote participant at most one subscribe
\* request is sent per publishing period, also for a participant whose
\* Joined or start-of-publishing Update is handled between the join and the
\* end of the WelcomeUsage prompt, and the call stays Running
C33_Original ==
    /\ \A u \in RemoteUuids : subRequests[u] <= 1
    /\ subState = "Running"

\* ------------------------------------------------------------------------
\* claims about media messages for streams the recorder does not receive
\* ------------------------------------------------------------------------
\* the recorder has no source for the stream: it never subscribed to it, or
\* the participant left, stopped publishing or revoked consent
NotSubscribed(id) == id \notin DOMAIN recTalk.streams

\* C34 (as claimed): an SdpOffer, SdpCandidate or SdpEndOfCandidates for a
\* stream that is not, or no longer, subscribed is ignored and does not end
\* the recording session
C34_Original ==
    [][\A id \in StreamIds :
        (/\ recPc = "run"
         /\ NotSubscribed(id)
         /\ \/ \E answered \in BOOLEAN : RecvSdpOffer(id, answered)
            \/ RecvSdpCandidate(id)
            \/ RecvSdpEndOfCandidates(id)) =>
            recPc' = "run"]_vars

\* ------------------------------------------------------------------------
\* claims about reINVITEs after ignored reINVITEs
\* ------------------------------------------------------------------------
\* C35 (as claimed): after a reINVITE whose remote_version exceeds every
\* remote_version seen before on the call and whose address is specified,
\* RTP and RTCP are sent to that address, whatever reINVITEs were ignored
\* before; and the version offers are compared against is the largest one
\* seen, which an ignored reINVITE does not change
C35_Original ==
    /\ (/\ sipLast.op = "update" /\ sipLast.ok /\ sipLast.newest
        /\ ~IsUnspecified(sipBin.current_session_info.rtp_addr.ip))
       => /\ sipBin.rtp_udpsink = sipBin.current_session_info.rtp_addr
          /\ sipBin.rtcp_udpsink = sipBin.current_session_info.rtcp_addr
    /\ sipBin.created => sipBin.current_session_info.remote_version = sipLast.seen

\* ------------------------------------------------------------------------
\* claims about the mute state of a call
\* ------------------------------------------------------------------------
\* C36 (as claimed): whenever the publish connection exists, Signaling.muted,
\* the mute property of the publish audio-input and the audio state last
\* announced to the controller agree, also right after the publish is
\* created and when `1` or request_mute was handled before it existed
C36_Original ==
    subPc = "published" =>
        /\ (audioInput = "muted") = mutedFlag
        /\ Len(mediaMsgs) > 0 => mediaMsgs[Len(mediaMsgs)].audio = ~mutedFlag

\* ------------------------------------------------------------------------
\* claims about rejected reINVITEs
\* ------------------------------------------------------------------------
\* the step is a reINVITE of an established call that is answered with 406
\* or 500
RejectedReinvite ==
    /\ sipBin.created
    /\ sipState = "Running"
    /\ sipLast' # sipLast \/ sipState' # sipState \/ sipBin' # sipBin
    /\ sipResponse' \in {406, 500}

\* C37 (as claimed): a reINVITE the gateway rejects, with 406 for a body
\* that is not SDP or with 500 when the SDP update fails, leaves the call
\* Running, with its negotiated session, RTP and RTCP destination and hold
\* state unchanged
C37_Original ==
    [][RejectedReinvite =>
        /\ sipState' = "Running"
        /\ sipBin'.current_session_info = sipBin.current_session_info
        /\ sipBin'.rtp_udpsink = sipBin.rtp_udpsink
        /\ sipBin'.rtcp_udpsink = sipBin.rtcp_udpsink
        /\ sipBin'.valve_drop = sipBin.valve_drop]_vars

\* ------------------------------------------------------------------------
\* claims about the payload type of the chosen codec
\* ------------------------------------------------------------------------
\* C38 (as claimed): for every accepted offer the payload type the answer
\* advertises for the chosen codec is the one the receive path of the SIP
\* bin maps to the codec's depayloader and decoder, also when the codec was
\* matched by rtpmap name under a dynamic payload number
C38_Original ==
    (codecPc = "done" /\ codecInfo # NoCodec) =>
        IsMediaPt(codecInfo, AnswerFmt(codecInfo))

\* ------------------------------------------------------------------------
\* claims about streams that wait for a free slot
\* ------------------------------------------------------------------------
\* a registered stream whose status has video and that is not visible: a
\* Camera whose show_stream was ignored at the cap, or a stream that a
\* ScreenCapture replaced
Waiting(t, id) ==
    /\ id \in DOMAIN t.streams
    /\ t.streams[id].status.has_video
    /\ ~Contains(t.visibles, id)

\* C39 (as claimed): when the visible list, all of registered streams, is
\* at max_visibles and a
\* hide_stream or remove_stream of another, visible stream frees a slot,
\* every registered stream whose status has video and that was not visible
\* is in the visible list afterwards
C39_Original ==
    [][\A id \in StreamIds, other \in StreamIds :
        (/\ Waiting(talk, id)
         /\ \A i \in 1..Len(talk.visibles) : talk.visibles[i] \in DOMAIN talk.streams
         /\ other # id
         /\ Len(talk.visibles) >= talk.max_visibles
         /\ Contains(talk.visibles, other)
         /\ \/ talk' = TalkHideStream(talk, other).t
            \/ talk' = TalkRemoveStream(talk, other).t
         /\ Len(talk'.visibles) < talk'.max_visibles)
        => Contains(talk'.visibles, id)]_vars

\* ------------------------------------------------------------------------
\* claims about DTMF events after a wraparound of the RTP timestamp
\* ------------------------------------------------------------------------
\* C40 (as claimed): a well-formed DTMF packet whose RTP timestamp is
\* numerically smaller than that of the previous event although it is
\* later in the stream (less than half the timestamp range ahead, modulo
\* 2^TsWidth: the timestamp wrapped around) posts a dtmf-event
C40_Original ==
    [][(/\ Len(dtmfIn') = Len(dtmfIn) + 1
        /\ dtmfIn'[Len(dtmfIn')].ok
        /\ last_timestamp # NoTimestamp
        /\ dtmfIn'[Len(dtmfIn')].ts < last_timestamp
        /\ (dtmfIn'[Len(dtmfIn')].ts - last_timestamp) % (2 ^ TsWidth)
               < 2 ^ (TsWidth - 1))
       => dtmfPosted' = dtmfPosted + 1]_vars

====
